---- MODULE Spec2Model ----
(***************************************************************************)
(* Import pipeline of the OPL USB utility: game-ID resolver, manifest      *)
(* store, space accountant and the import_iso request handler.             *)
(*                                                                         *)
(* Text is modelled as sequences of one-character strings, so that the     *)
(* regular expressions and the string methods of the Python source are     *)
(* computed character by character.  Byte quantities are counted in MiB.   *)
(***************************************************************************)
EXTENDS Integers, Sequences, FiniteSets, TLC

\* ------------------------------------------------------------------------
\* Characters and the Python string methods the source uses
\* ------------------------------------------------------------------------

LowerChars == <<"a","b","c","d","e","f","g","h","i","j","k","l","m",
                "n","o","p","q","r","s","t","u","v","w","x","y","z">>

UpperChars == <<"A","B","C","D","E","F","G","H","I","J","K","L","M",
                "N","O","P","Q","R","S","T","U","V","W","X","Y","Z">>

DigitChars == <<"0","1","2","3","4","5","6","7","8","9">>

OtherChars == <<" ","_",".","-","(",")","/">>

AllChars == LowerChars \o UpperChars \o DigitChars \o OtherChars

CharIndex(c, alphabet) ==
    IF \E i \in DOMAIN alphabet : alphabet[i] = c
    THEN CHOOSE i \in DOMAIN alphabet : alphabet[i] = c
    ELSE 0

IsUpper(c) == CharIndex(c, UpperChars) > 0
IsLower(c) == CharIndex(c, LowerChars) > 0
IsDigit(c) == CharIndex(c, DigitChars) > 0
IsAlnum(c) == IsUpper(c) \/ IsLower(c) \/ IsDigit(c)
SpaceChars == {" "}
IsSpace(c) == c \in SpaceChars

UpperChar(c) == IF IsLower(c) THEN UpperChars[CharIndex(c, LowerChars)] ELSE c
LowerChar(c) == IF IsUpper(c) THEN LowerChars[CharIndex(c, UpperChars)] ELSE c

\* str.upper() / str.lower()
StrUpper(s) == [i \in 1..Len(s) |-> UpperChar(s[i])]
StrLower(s) == [i \in 1..Len(s) |-> LowerChar(s[i])]

Max(a, b) == IF a >= b THEN a ELSE b
Min(a, b) == IF a <= b THEN a ELSE b

\* s[i-1:] of Python, i counted from 1
DropTo(s, i) == IF i > Len(s) THEN <<>> ELSE SubSeq(s, i, Len(s))
\* s[:n]
Take(s, n) == SubSeq(s, 1, Min(n, Len(s)))

\* length of the longest prefix of s whose characters all satisfy In
RECURSIVE LeadCount(_, _, _)
LeadCount(s, chars, i) ==
    IF i <= Len(s) /\ s[i] \in chars THEN LeadCount(s, chars, i + 1) ELSE i - 1

RECURSIVE TrailStart(_, _, _)
TrailStart(s, chars, i) ==
    IF i >= 1 /\ s[i] \in chars THEN TrailStart(s, chars, i - 1) ELSE i

\* str.strip(chars): drop leading and trailing characters of chars
StripBy(s, chars) ==
    LET a == LeadCount(s, chars, 1)
        b == TrailStart(s, chars, Len(s))
    IN IF a >= b THEN <<>> ELSE SubSeq(s, a + 1, b)

\* str.strip()
StrStrip(s) == StripBy(s, SpaceChars)

\* str.startswith(p)
StartsWith(s, p) == Len(s) >= Len(p) /\ SubSeq(s, 1, Len(p)) = p

\* re.sub(r"[class]+", " ", s): every maximal run of In-characters becomes one space
RECURSIVE CollapseRuns(_, _, _)
CollapseRuns(s, chars, i) ==
    IF i > Len(s) THEN <<>>
    ELSE IF s[i] \in chars
         THEN IF i > 1 /\ s[i - 1] \in chars
              THEN CollapseRuns(s, chars, i + 1)
              ELSE <<" ">> \o CollapseRuns(s, chars, i + 1)
         ELSE <<s[i]>> \o CollapseRuns(s, chars, i + 1)

\* pathlib: Path(s).name, Path(s).suffix, Path(s).stem
LastIndexOf(s, c) ==
    IF \E i \in 1..Len(s) : s[i] = c
    THEN CHOOSE i \in 1..Len(s) : s[i] = c /\ \A j \in (i + 1)..Len(s) : s[j] # c
    ELSE 0

PathName(s) == DropTo(s, LastIndexOf(s, "/") + 1)

PathSuffix(s) ==
    LET name == PathName(s)
        i == LastIndexOf(name, ".")
    IN IF 1 < i /\ i < Len(name) THEN DropTo(name, i) ELSE <<>>

PathStem(s) ==
    LET name == PathName(s)
        i == LastIndexOf(name, ".")
    IN IF 1 < i /\ i < Len(name) THEN SubSeq(name, 1, i - 1) ELSE name

\* ------------------------------------------------------------------------
\* app/core/constants.py  (bytes counted in MiB)
\* ------------------------------------------------------------------------

REQUIRED_FOLDERS == <<"APPS", "ART", "CD", "CFG", "CHT", "DVD", "LNG", "POPS", "THM", "VMC">>
CD_THRESHOLD_BYTES == 700
SPACE_BUFFER_MIN_BYTES == 500
\* SPACE_BUFFER_RATIO = 0.05, kept as the fraction 5 / 100
SPACE_BUFFER_RATIO_NUM == 5
SPACE_BUFFER_RATIO_DEN == 100

\* ------------------------------------------------------------------------
\* app/services/game_service.py: the game-ID resolver
\* ------------------------------------------------------------------------

\* the regular expression [A-Z]{4}_[0-9]{3}\.[0-9]{2} matched at position i of s
CanonicalAt(s, i) ==
    /\ i >= 1
    /\ Len(s) >= i + 10
    /\ \A k \in 0..3 : IsUpper(s[i + k])
    /\ s[i + 4] = "_"
    /\ \A k \in 5..7 : IsDigit(s[i + k])
    /\ s[i + 8] = "."
    /\ \A k \in 9..10 : IsDigit(s[i + k])

\* re.fullmatch of the canonical pattern
IsCanonicalId(s) == Len(s) = 11 /\ CanonicalAt(s, 1)

\* the value None of the source
None == <<"<None>">>

\* a normalizer that tests the upper-cased id and returns it as it was written
normalize_keeping_case(game_id) ==
    IF IsCanonicalId(StrUpper(StrStrip(game_id))) THEN StrStrip(game_id) ELSE None

\* normalize_game_id: the normalized id, or None where the source raises ValueError
normalize_game_id(game_id) ==
    LET normalized == StrUpper(StrStrip(game_id))
    IN IF IsCanonicalId(normalized) THEN normalized ELSE None

\* Stand-in for int(hashlib.sha1(seed).hexdigest()[:5], 16): a deterministic
\* function of the seed's characters with values in 0 .. 16^5 - 1.
RECURSIVE Sha1Head(_)
Sha1Head(seed) ==
    IF seed = <<>> THEN 44370
    ELSE (Sha1Head(Take(seed, Len(seed) - 1)) * 31
          + CharIndex(seed[Len(seed)], AllChars) * 7919 + 1) % 1048576

\* f"{n:03d}" and f"{n:02d}" for the ranges generate_game_id produces
Digit(d) == DigitChars[(d % 10) + 1]
Format3(n) == <<Digit(n \div 100), Digit(n \div 10), Digit(n)>>
Format2(n) == <<Digit(n \div 10), Digit(n)>>

\* a generator whose modulus is one digit short
generate_mod_10000(seed) ==
    LET stripped == StrUpper(SelectSeq(seed, IsAlnum))
        cleaned == IF Len(stripped) < 4
                   THEN Take(stripped \o <<"A","U","T","O">>, 4)
                   ELSE stripped
        prefix == Take(cleaned, 4)
        number == Sha1Head(seed) % 10000
    IN prefix \o <<"_">> \o Format3(number \div 100) \o <<".">> \o Format2(number % 100)

generate_game_id(seed) ==
    LET stripped == StrUpper(SelectSeq(seed, IsAlnum))
        cleaned == IF Len(stripped) < 4
                   THEN Take(stripped \o <<"A","U","T","O">>, 4)
                   ELSE stripped
        prefix == Take(cleaned, 4)
        number == Sha1Head(seed) % 100000
    IN prefix \o <<"_">> \o Format3(number \div 100) \o <<".">> \o Format2(number % 100)

\* resolve_game_id(None, seed): only the generating branch is used by the callers modelled
resolve_game_id(seed) ==
    LET base == IF StrStrip(seed) = <<>>
                THEN <<"A","U","T","O","_","G","A","M","E">>
                ELSE StrStrip(seed)
    IN generate_game_id(base)

\* extract_game_id_from_system_cnf: first match of the pattern in the upper-cased text
extract_game_id_from_system_cnf(content) ==
    LET up == StrUpper(content)
        hits == {i \in 1..Len(up) : CanonicalAt(up, i)}
    IN IF hits = {} THEN None
       ELSE LET i == CHOOSE i \in hits : \A j \in hits : i <= j
            IN SubSeq(up, i, i + 10)

\* extract_game_id_from_iso: cnf is the text of SYSTEM.CNF read from the image,
\* or None when the image cannot be opened or holds no such file
extract_game_id_from_iso(cnf) ==
    IF cnf = None \/ cnf = <<>> THEN None
    ELSE extract_game_id_from_system_cnf(cnf)

\* normalize_lookup_key
IsLowerAlnum(c) == IsLower(c) \/ IsDigit(c)
normalize_lookup_key(value) == SelectSeq(StrLower(value), IsLowerAlnum)

FilenameSepChars == {".", "_", "-", " "}
IsFilenameSep(c) == c \in FilenameSepChars

\* extract_game_id_from_filename
extract_game_id_from_filename(source_filename) ==
    IF source_filename = None \/ source_filename = <<>> THEN None
    ELSE LET up == StrUpper(PathName(source_filename))
         IN IF CanonicalAt(up, 1) /\ Len(up) >= 12 /\ IsFilenameSep(up[12])
            THEN SubSeq(up, 1, 11)
            ELSE None

NameSepChars == {"_", "-", "."}
IsNameSep(c) == c \in NameSepChars

\* derive_game_name(None, source_filename): the name, or None where the source raises ValueError
derive_game_name(source_filename) ==
    IF source_filename = None \/ StrStrip(source_filename) = <<>> THEN None
    ELSE LET stem0 == PathStem(StrStrip(source_filename))
             stem1 == IF CanonicalAt(StrUpper(stem0), 1)
                      THEN LET rest == DropTo(stem0, 12)
                           IN DropTo(rest, LeadCount(rest, FilenameSepChars, 1) + 1)
                      ELSE stem0
             stem2 == StrStrip(CollapseRuns(stem1, NameSepChars, 1))
         IN IF stem2 = <<>> THEN None ELSE stem2


\* ------------------------------------------------------------------------
\* app/services/game_service.py: the manifest store
\* ------------------------------------------------------------------------

\* the entry dict written by upsert_manifest_entry
ManifestEntry(source_filename, game_name, game_id, id_source, target_folder, destination_filename, now) ==
    [source_filename |-> source_filename,
     source_key |-> normalize_lookup_key(PathStem(source_filename)),
     game_name |-> game_name,
     game_name_key |-> normalize_lookup_key(game_name),
     game_id |-> game_id,
     id_source |-> id_source,
     target_folder |-> target_folder,
     destination_filename |-> destination_filename,
     destination_key |-> normalize_lookup_key(PathStem(destination_filename)),
     updated_at |-> now]

\* the four-key test of the upsert loop
EntryMatches(entry, source_filename, destination_filename) ==
    \/ entry.source_key = normalize_lookup_key(PathStem(source_filename))
    \/ entry.source_filename = source_filename
    \/ entry.destination_key = normalize_lookup_key(PathStem(destination_filename))
    \/ entry.destination_filename = destination_filename

\* index of the entry the upsert loop updates (it breaks at the first match), 0 if none
FirstMatch(entries, source_filename, destination_filename) ==
    LET hits == {i \in 1..Len(entries) :
                    EntryMatches(entries[i], source_filename, destination_filename)}
    IN IF hits = {} THEN 0 ELSE CHOOSE i \in hits : \A j \in hits : i <= j

\* the entry list upsert_manifest_entry saves, from the list it loaded
UpsertEntries(entries, source_filename, game_name, game_id, id_source, target_folder, destination_filename, now) ==
    LET new == ManifestEntry(source_filename, game_name, game_id, id_source,
                             target_folder, destination_filename, now)
        m == FirstMatch(entries, source_filename, destination_filename)
    IN IF m = 0 THEN Append(entries, new)
       ELSE [entries EXCEPT ![m] = new]

\* the manifest file: absent, holding a JSON document {"entries": [...]}, or
\* holding text that is not JSON
AbsentFile == [kind |-> "absent", entries |-> <<>>]
GarbageFile == [kind |-> "garbage", entries |-> <<>>]
\* no target given to a function whose target is optional
NoTarget == [kind |-> "none", entries |-> <<>>]
ValidFile(entries) == [kind |-> "valid", entries |-> entries]

\* a manifest file that cannot be opened or read, a JSON document that is a
\* list and no object, and an object whose "entries" is no list
UnreadableFile(entries) == [kind |-> "unreadable", entries |-> entries]
TopLevelList(entries) == [kind |-> "nonobject", entries |-> entries]
BadEntriesFile == [kind |-> "badentries", entries |-> <<>>]

\* a loader that takes any list it can find in the file
load_any_list(file) == file.entries

\* load_manifest: the entries of a well-formed file, an empty list for all else
load_manifest(file) == IF file.kind = "valid" THEN file.entries ELSE <<>>

\* the game_id of the first entry of entries whose place is in hits, or None
FirstGameId(entries, hits) ==
    IF hits = {} THEN None
    ELSE entries[CHOOSE i \in hits : \A j \in hits : i <= j].game_id

\* value or "", for an Optional[str] argument
OrEmpty(value) == IF value = None THEN <<>> ELSE value

\* a lookup in one pass: the first entry that matches on any of the three keys
lookup_in_one_pass(target, source_filename, game_name) ==
    LET entries == load_manifest(target)
        source_key == normalize_lookup_key(PathStem(OrEmpty(source_filename)))
        source_name == StrStrip(OrEmpty(source_filename))
        game_key == normalize_lookup_key(OrEmpty(game_name))
        hits == {i \in 1..Len(entries) :
                    /\ entries[i].game_id # <<>>
                    /\ \/ /\ source_key # <<>>
                          /\ \/ entries[i].source_key = source_key
                             \/ entries[i].destination_key = source_key
                       \/ /\ source_name # <<>>
                          /\ \/ entries[i].source_filename = source_name
                             \/ entries[i].destination_filename = source_name
                       \/ game_key # <<>> /\ entries[i].game_name_key = game_key}
    IN FirstGameId(entries, hits)

\* lookup_game_id_from_manifest: three passes over the entries, by source key,
\* by raw source filename and by game-name key; target is the manifest file
\* load_manifest(target) reads
lookup_game_id_from_manifest(target, source_filename, game_name) ==
    LET entries == load_manifest(target)
        source_key == normalize_lookup_key(PathStem(OrEmpty(source_filename)))
        source_name == StrStrip(OrEmpty(source_filename))
        game_key == normalize_lookup_key(OrEmpty(game_name))
        found == {i \in 1..Len(entries) : entries[i].game_id # <<>>}
        by_key == {i \in found : /\ source_key # <<>>
                                 /\ \/ entries[i].source_key = source_key
                                    \/ entries[i].destination_key = source_key}
        by_name == {i \in found : /\ source_name # <<>>
                                  /\ \/ entries[i].source_filename = source_name
                                     \/ entries[i].destination_filename = source_name}
        by_game == {i \in found : game_key # <<>> /\ entries[i].game_name_key = game_key}
    IN IF by_key # {} THEN FirstGameId(entries, by_key)
       ELSE IF by_name # {} THEN FirstGameId(entries, by_name)
       ELSE FirstGameId(entries, by_game)

\* the (game_id, was_generated, id_source) tuple resolve_game_id_for_target returns
Resolution(game_id, generated, id_source) ==
    [game_id |-> game_id, generated |-> generated, id_source |-> id_source]

\* the seed of the generated id: (game_name or "").strip() or (source_filename or "").strip()
GenerationSeed(game_name, source_filename) ==
    IF StrStrip(OrEmpty(game_name)) # <<>>
    THEN StrStrip(OrEmpty(game_name))
    ELSE StrStrip(OrEmpty(source_filename))

\* a resolver that asks the manifest before it looks at the filename
resolve_manifest_first(target, game_name, source_filename) ==
    IF target # NoTarget /\ lookup_game_id_from_manifest(target, source_filename, game_name) # None
    THEN Resolution(lookup_game_id_from_manifest(target, source_filename, game_name),
                    FALSE, "manifest")
    ELSE IF extract_game_id_from_filename(source_filename) # None
    THEN Resolution(extract_game_id_from_filename(source_filename), FALSE, "filename")
    ELSE Resolution(resolve_game_id(GenerationSeed(game_name, source_filename)),
                    TRUE, "generated")

\* resolve_game_id_for_target: target is NoTarget or the manifest file of the target
resolve_game_id_for_target(target, game_name, source_filename) ==
    IF extract_game_id_from_filename(source_filename) # None
    THEN Resolution(extract_game_id_from_filename(source_filename), FALSE, "filename")
    ELSE IF target # NoTarget
            /\ lookup_game_id_from_manifest(target, source_filename, game_name) # None
    THEN Resolution(lookup_game_id_from_manifest(target, source_filename, game_name),
                    FALSE, "manifest")
    ELSE Resolution(resolve_game_id(GenerationSeed(game_name, source_filename)),
                    TRUE, "generated")

\* ------------------------------------------------------------------------
\* app/main.py: its own copies of the filename extractor and of the resolver;
\* its _lookup_game_id_from_manifest and _resolve_game_id are the text of the
\* service's functions
\* ------------------------------------------------------------------------

\* _extract_game_id_from_filename: the id must be followed by "_"
_extract_game_id_from_filename(source_filename) ==
    IF source_filename = None \/ source_filename = <<>> THEN None
    ELSE LET up == StrUpper(PathName(source_filename))
         IN IF CanonicalAt(up, 1) /\ Len(up) >= 12 /\ up[12] = "_"
            THEN SubSeq(up, 1, 11)
            ELSE None

\* _resolve_game_id_for_target
_resolve_game_id_for_target(target, game_name, source_filename) ==
    IF _extract_game_id_from_filename(source_filename) # None
    THEN Resolution(_extract_game_id_from_filename(source_filename), FALSE, "filename")
    ELSE IF target # NoTarget
            /\ lookup_game_id_from_manifest(target, source_filename, game_name) # None
    THEN Resolution(lookup_game_id_from_manifest(target, source_filename, game_name),
                    FALSE, "manifest")
    ELSE Resolution(resolve_game_id(GenerationSeed(game_name, source_filename)),
                    TRUE, "generated")

\* ------------------------------------------------------------------------
\* app/services/target_service.py
\* ------------------------------------------------------------------------

\* a buffer that takes the smaller of the two amounts
compute_buffer_min(total_iso_bytes) ==
    Min((total_iso_bytes * SPACE_BUFFER_RATIO_NUM) \div SPACE_BUFFER_RATIO_DEN,
        SPACE_BUFFER_MIN_BYTES)

\* a buffer without the floor
compute_buffer_ratio_only(total_iso_bytes) ==
    (total_iso_bytes * SPACE_BUFFER_RATIO_NUM) \div SPACE_BUFFER_RATIO_DEN

compute_buffer(total_iso_bytes) ==
    Max((total_iso_bytes * SPACE_BUFFER_RATIO_NUM) \div SPACE_BUFFER_RATIO_DEN,
        SPACE_BUFFER_MIN_BYTES)

\* required_bytes = total_iso_bytes + buffer_bytes, as import_iso computes it
required_bytes(total_iso_bytes) == total_iso_bytes + compute_buffer(total_iso_bytes)

\* an access test that leaves out os.access
validate_target_exists(t) ==
    CASE t = "missing" -> "target path does not exist"
      [] t = "notdir" -> "target path is not a directory"
      [] OTHER -> "ok"

\* validate_target_access: the reason, "ok" when access is granted
validate_target_access(t) ==
    CASE t = "missing" -> "target path does not exist"
      [] t = "notdir" -> "target path is not a directory"
      [] t = "noaccess" -> "target path is not writable"
      [] OTHER -> "ok"

FolderNames == {REQUIRED_FOLDERS[i] : i \in DOMAIN REQUIRED_FOLDERS}

\* ensure_required_folders walks REQUIRED_FOLDERS in order, creating the missing
\* ones, and raises NotADirectoryError at the first name that is not a directory
RECURSIVE EnsureFrom(_, _, _)
EnsureFrom(fs, i, created) ==
    IF i > Len(REQUIRED_FOLDERS) THEN [ok |-> TRUE, folders |-> fs, created |-> created]
    ELSE LET folder == REQUIRED_FOLDERS[i]
         IN IF fs[folder] = "file"
            THEN [ok |-> FALSE, folders |-> fs, created |-> created]
            ELSE IF fs[folder] = "missing"
                 THEN EnsureFrom([fs EXCEPT ![folder] = "dir"], i + 1, Append(created, folder))
                 ELSE EnsureFrom(fs, i + 1, created)

\* a variant without the existence test: every name it passes is reported
ensure_reporting_all(fs) == [EnsureFrom(fs, 1, <<>>) EXCEPT !.created = REQUIRED_FOLDERS]

\* a variant that repairs: whatever is not a directory is made one
ensure_and_repair(fs) ==
    LET NotDir(folder) == fs[folder] # "dir"
    IN [ok |-> TRUE, folders |-> [f \in FolderNames |-> "dir"],
        created |-> SelectSeq(REQUIRED_FOLDERS, NotDir)]

ensure_required_folders(fs) == EnsureFrom(fs, 1, <<>>)


\* ------------------------------------------------------------------------
\* Bounds and the inputs drawn for the import requests
\* ------------------------------------------------------------------------

\* largest number of uploads in one request
MaxFiles == 2
\* number of import requests started in one behaviour
MaxRequests == 2
\* worker slots that can run import_iso at the same time
Requests == {1, 2}

NameA == <<"a", ".", "i", "s", "o">>
NameSlusA == <<"S", "L", "U", "S", "_", "1", "1", "1", ".", "1", "1", "_", "a", ".", "i", "s", "o">>
NameSeven == <<"7", ".", "i", "s", "o">>
NameTxt == <<"b", ".", "t", "x", "t">>
CnfSlus == <<"s", "l", "u", "s", "_", "1", "1", "1", ".", "1", "1", ";", "1">>
DotIso == <<".", "i", "s", "o">>

Upload(filename, size, cnf) == [filename |-> filename, size |-> size, cnf |-> cnf]

\* the uploads a request can carry: file name, size in MiB, text of SYSTEM.CNF
Uploads ==
    { Upload(NameA, 700, None),
      Upload(NameA, 100, CnfSlus),
      Upload(NameSlusA, 100, CnfSlus),
      Upload(NameSeven, 100, None),
      Upload(NameTxt, 100, None),
      Upload(<<>>, 100, None),
      Upload(NameA, 0, None) }

Batches == UNION {[1..n -> Uploads] : n \in 0..MaxFiles}

\* free space, in MiB, the target can start with or be brought down to by other processes
FreeLevels == {1024, 2048}
FreeAtStart == CHOOSE x \in FreeLevels : \A y \in FreeLevels : y <= x

\* ------------------------------------------------------------------------
\* app/api/routes.py: import_iso, staging
\* ------------------------------------------------------------------------

RECURSIVE IntToStr(_)
IntToStr(n) == IF n < 10 THEN <<Digit(n)>> ELSE IntToStr(n \div 10) \o <<Digit(n)>>

TmpHas(tmpFiles, name) == \E f \in tmpFiles : f.name = name

\* a staged path that tries the suffix _1 only
StagedSuffixOne(tmpFiles, original_name) ==
    IF ~TmpHas(tmpFiles, original_name) THEN original_name
    ELSE PathStem(original_name) \o <<"_", "1">> \o PathSuffix(original_name)

\* the staged path of an upload: its own name, or the first free name_<counter>.ext
StagedName(tmpFiles, original_name) ==
    IF ~TmpHas(tmpFiles, original_name) THEN original_name
    ELSE LET base == PathStem(original_name)
             suffix == PathSuffix(original_name)
             cand(c) == base \o <<"_">> \o IntToStr(c) \o suffix
             counter == CHOOSE c \in 1..(Cardinality(tmpFiles) + 1) :
                            /\ ~TmpHas(tmpFiles, cand(c))
                            /\ \A d \in 1..(c - 1) : TmpHas(tmpFiles, cand(d))
         IN cand(counter)

\* inferred_game_name: derive_game_name, or the stem where it raises ValueError
InferredName(original_name) ==
    LET derived == derive_game_name(original_name)
    IN IF derived = None THEN PathStem(original_name) ELSE derived

\* resolved_game_id: the disc's id if extraction found one, else a generated id
ResolvedId(iso_game_id, inferred_game_name) ==
    IF iso_game_id # None THEN iso_game_id ELSE resolve_game_id(inferred_game_name)

\* a prefix test that compares the name as it is written
NormalizedExact(original_name, resolved_game_id) ==
    IF StartsWith(original_name, resolved_game_id \o <<"_">>)
    THEN original_name
    ELSE resolved_game_id \o <<"_">> \o original_name

\* normalized_original_name: the id is prefixed unless the name already starts with it
NormalizedName(original_name, resolved_game_id) ==
    IF StartsWith(StrUpper(original_name), resolved_game_id \o <<"_">>)
    THEN original_name
    ELSE resolved_game_id \o <<"_">> \o original_name

\* a record that tags an id found in the file name as such
PreparedTaggingFilename(upload, original_name, staged_path, inferred_game_name, iso_game_id, resolved_game_id) ==
    [name |-> NormalizedName(original_name, resolved_game_id),
     source_filename |-> original_name,
     game_name |-> inferred_game_name,
     game_id |-> resolved_game_id,
     id_source |-> IF iso_game_id # None THEN "iso"
                   ELSE IF extract_game_id_from_filename(original_name) # None THEN "filename"
                   ELSE "generated",
     size |-> upload.size,
     staged_path |-> staged_path,
     target_folder |-> IF upload.size < CD_THRESHOLD_BYTES THEN "CD" ELSE "DVD",
     content |-> upload]

\* a record whose folder test takes a file of exactly the threshold for a CD
PreparedInclusive(upload, original_name, staged_path, inferred_game_name, iso_game_id, resolved_game_id) ==
    [name |-> NormalizedName(original_name, resolved_game_id),
     source_filename |-> original_name,
     game_name |-> inferred_game_name,
     game_id |-> resolved_game_id,
     id_source |-> IF iso_game_id # None THEN "iso" ELSE "generated",
     size |-> upload.size,
     staged_path |-> staged_path,
     target_folder |-> IF upload.size <= CD_THRESHOLD_BYTES THEN "CD" ELSE "DVD",
     content |-> upload]

PreparedRecord(upload, original_name, staged_path, inferred_game_name, iso_game_id, resolved_game_id) ==
    [name |-> NormalizedName(original_name, resolved_game_id),
     source_filename |-> original_name,
     game_name |-> inferred_game_name,
     game_id |-> resolved_game_id,
     id_source |-> IF iso_game_id # None THEN "iso" ELSE "generated",
     size |-> upload.size,
     staged_path |-> staged_path,
     target_folder |-> IF upload.size < CD_THRESHOLD_BYTES THEN "CD" ELSE "DVD",
     content |-> upload]

PreparedWithId(upload, original_name, staged_path, inferred_game_name, iso_game_id) ==
    PreparedRecord(upload, original_name, staged_path, inferred_game_name, iso_game_id,
                   ResolvedId(iso_game_id, inferred_game_name))

\* the prepared_files record of one upload
PreparedFile(upload, original_name, staged_path) ==
    PreparedWithId(upload, original_name, staged_path, InferredName(original_name),
                   extract_game_id_from_iso(upload.cnf))

\* the staging loop over the uploads, from upload i on; err names the return taken
RECURSIVE StageFrom(_, _, _, _)
StageFrom(files, i, tmpFiles, prepared) ==
    IF i > Len(files) THEN [err |-> "none", tmp |-> tmpFiles, prepared |-> prepared]
    ELSE LET upload == files[i]
             original_name == PathName(upload.filename)
         IN IF original_name = <<>>
            THEN [err |-> "empty_name", tmp |-> tmpFiles, prepared |-> prepared]
            ELSE IF StrLower(PathSuffix(original_name)) # DotIso
            THEN [err |-> "non_iso", tmp |-> tmpFiles, prepared |-> prepared]
            ELSE LET staged_path == StagedName(tmpFiles, original_name)
                     written == {f \in tmpFiles : f.name # staged_path}
                                  \cup {[name |-> staged_path, content |-> upload]}
                 IN StageFrom(files, i + 1, written,
                              Append(prepared, PreparedFile(upload, original_name, staged_path)))

RECURSIVE SumSizes(_)
SumSizes(items) ==
    IF items = <<>> THEN 0 ELSE items[1].size + SumSizes(Tail(items))

\* step(state, status, message, details): file is the "file" detail, None without one
step(state, status, message, file) ==
    [state |-> state, status |-> status, message |-> message, file |-> file]

\* the space figures of a response's details, in MiB; all 0 where the response has none
NoDetails == [required |-> 0, free |-> 0, deficit |-> 0]

\* figures whose deficit is taken the wrong way round
SpaceDetailsReversed(required_amount, free_amount) ==
    [required |-> required_amount, free |-> free_amount, deficit |-> free_amount - required_amount]

\* deficit = required_bytes - free_bytes, and the details of the capacity failure
SpaceDetails(required_amount, free_amount) ==
    [required |-> required_amount, free |-> free_amount, deficit |-> required_amount - free_amount]

NoResponse == [status |-> "none", state |-> "none", message |-> "none",
               next_action |-> "none", status_code |-> 0, imported |-> <<>>,
               details |-> NoDetails]

ErrorResponse(message, next_action, status_code) ==
    [status |-> "error", state |-> "failed", message |-> message,
     next_action |-> next_action, status_code |-> status_code, imported |-> <<>>,
     details |-> NoDetails]


\* ------------------------------------------------------------------------
\* State
\* ------------------------------------------------------------------------

VARIABLES
    target,        \* what the target path is: "ok", "missing", "notdir", "noaccess"
    folders,       \* required folder name -> "missing", "dir" or "file"
    dest,          \* files in CD/ and DVD/: records [folder, name, content]
    manifestFile,  \* <target>/CFG/game_manifest.json
    free,          \* shutil.disk_usage(target).free, in MiB
    started,       \* number of import requests received so far
    req,           \* the local state of import_iso in each worker slot
    hist,          \* per request: what held at its start and what it did so far
    call,          \* the last call of a service function or of another endpoint: arguments and result
    _ART_SEARCH_CACHE,          \* art_service: cache key -> entry, in insertion order
    _ART_SEARCH_CLIENT_LIMITS,  \* art_service: client id -> limiter, or NoLimiter
    clock,         \* time.time(), in ticks of 7.5 seconds
    searches,      \* the local state of search_art in each worker slot
    granted        \* per client: the timestamps of the rate-limit calls that were allowed

\* the state of the art search
artVars == <<_ART_SEARCH_CACHE, _ART_SEARCH_CLIENT_LIMITS, clock, searches, granted>>

vars == <<target, folders, dest, manifestFile, free, started, req, hist, call, artVars>>

\* ------------------------------------------------------------------------
\* app/core/constants.py, the settings of the art search. They are read from
\* the environment; the runs take a configuration with small values. Time is
\* counted in ticks of 7.5 seconds
\* ------------------------------------------------------------------------

\* ART_SEARCH_CACHE_TTL_SEC = 15
ART_SEARCH_CACHE_TTL_SEC == 2
\* ART_SEARCH_CACHE_MAX_SIZE = 2
ART_SEARCH_CACHE_MAX_SIZE == 2
\* ART_SEARCH_RATE_LIMIT_PER_MIN = 3
ART_SEARCH_RATE_LIMIT_PER_MIN == 3
\* ART_SEARCH_MIN_INTERVAL_SEC = 15
ART_SEARCH_MIN_INTERVAL_SEC == 2
\* the 60 seconds of the limiter's window
RateWindow == 8

\* ------------------------------------------------------------------------
\* app/services/art_service.py: the cache and the rate limiter. Each function
\* holds _ART_SEARCH_LOCK from its first statement to its return, so each is
\* one step
\* ------------------------------------------------------------------------

\* f"{provider}|{game_id}|{query.lower()}|{max_results}"
art_search_cache_key(provider, game_id, query, max_results) ==
    provider \o <<"|">> \o game_id \o <<"|">> \o StrLower(query) \o <<"|">> \o IntToStr(max_results)

\* the place of cache_key in the dict, 0 if it is not there
CachePlace(cache, cache_key) ==
    IF \E i \in 1..Len(cache) : cache[i].key = cache_key
    THEN CHOOSE i \in 1..Len(cache) : cache[i].key = cache_key
    ELSE 0

WithoutPlace(cache, i) == SubSeq(cache, 1, i - 1) \o SubSeq(cache, i + 1, Len(cache))

\* a read that takes whatever is cached
get_ignoring_age(cache, cache_key, now_ts) ==
    LET i == CachePlace(cache, cache_key)
    IN IF i = 0 THEN [cache |-> cache, result |-> None]
       ELSE [cache |-> cache, result |-> cache[i].candidates]

\* get_cached_art_search: the dict it leaves and what it returns
get_cached_art_search(cache, cache_key, now_ts) ==
    LET i == CachePlace(cache, cache_key)
    IN IF i = 0 THEN [cache |-> cache, result |-> None]
       ELSE IF now_ts - cache[i].ts > ART_SEARCH_CACHE_TTL_SEC
       THEN [cache |-> WithoutPlace(cache, i), result |-> None]
       ELSE [cache |-> cache, result |-> cache[i].candidates]

\* min(cache.items(), key=ts): the first entry, in insertion order, of the least ts
OldestPlace(cache) ==
    CHOOSE i \in 1..Len(cache) :
        /\ \A j \in 1..Len(cache) : cache[i].ts <= cache[j].ts
        /\ \A j \in 1..(i - 1) : cache[j].ts > cache[i].ts

\* cache[cache_key] = {...}: a key that is there keeps its place
CachePut(cache, cache_key, candidates, now_ts) ==
    LET entry == [key |-> cache_key, ts |-> now_ts, candidates |-> candidates]
        i == CachePlace(cache, cache_key)
    IN IF i = 0 THEN Append(cache, entry) ELSE [cache EXCEPT ![i] = entry]

\* a store that never evicts
store_without_eviction(cache, cache_key, candidates, now_ts) ==
    CachePut(cache, cache_key, candidates, now_ts)

\* store_cached_art_search: the dict it leaves
store_cached_art_search(cache, cache_key, candidates, now_ts) ==
    LET put == CachePut(cache, cache_key, candidates, now_ts)
    IN IF Len(put) > ART_SEARCH_CACHE_MAX_SIZE
       THEN WithoutPlace(put, OldestPlace(put))
       ELSE put

NoLimiter == [present |-> FALSE, window_start |-> 0, count |-> 0, last_ts |-> 0]

\* max(1, int(seconds + 0.999)) for a whole number of ticks
RetryAfter(ticks) == Max(1, (15 * ticks + 1) \div 2)

Verdict(limits, allowed, reason, retry_after) ==
    [limits |-> limits, allowed |-> allowed, reason |-> reason, retry_after |-> retry_after]

\* enforce_art_search_rate_limit: the limiters it leaves and the tuple it returns
enforce_art_search_rate_limit(limits, client_id, now_ts) ==
    LET l0 == IF ~limits[client_id].present
              THEN [present |-> TRUE, window_start |-> now_ts, count |-> 0, last_ts |-> 0]
              ELSE limits[client_id]
        l1 == IF now_ts - l0.window_start >= RateWindow
              THEN [l0 EXCEPT !.window_start = now_ts, !.count = 0]
              ELSE l0
        since_last == now_ts - l1.last_ts
    IN IF since_last < ART_SEARCH_MIN_INTERVAL_SEC
       THEN Verdict([limits EXCEPT ![client_id] = l1], FALSE,
                    "too many requests; please slow down",
                    RetryAfter(ART_SEARCH_MIN_INTERVAL_SEC - since_last))
       ELSE IF l1.count >= ART_SEARCH_RATE_LIMIT_PER_MIN
       THEN Verdict([limits EXCEPT ![client_id] = l1], FALSE,
                    "rate limit reached for art search",
                    RetryAfter(RateWindow - (now_ts - l1.window_start)))
       ELSE Verdict([limits EXCEPT ![client_id] =
                        [l1 EXCEPT !.count = l1.count + 1, !.last_ts = now_ts]],
                    TRUE, "", 0)

\* the clients of the art search, by request.client.host
Clients == {"10.0.0.1", "10.0.0.2"}

\* time.time() when the server starts: later than one window and one interval
ClockAtStart == RateWindow + ART_SEARCH_MIN_INTERVAL_SEC
\* the last tick of the clock in the runs of search_art
MaxClock == 13
\* the last tick of the clock in the runs of the rate limiter alone
MaxLimiterClock == 20

IdleSearch ==
    [pc |-> "idle", client |-> "10.0.0.1", game_query |-> <<>>, game_id |-> <<>>,
     now_ts |-> 0, cache_key |-> <<>>, candidates |-> None, status_code |-> 0,
     message |-> "none", cache_hit |-> FALSE]

ArtAtStart ==
    /\ _ART_SEARCH_CACHE = <<>>
    /\ _ART_SEARCH_CLIENT_LIMITS = [c \in Clients |-> NoLimiter]
    /\ clock = ClockAtStart
    /\ searches = [r \in Requests |-> IdleSearch]
    /\ granted = [c \in Clients |-> {}]

AllMissing == [f \in FolderNames |-> "missing"]
AllDirs == [f \in FolderNames |-> "dir"]

\* the targets a behaviour can start from
InitTargets ==
    { [target |-> "ok", folders |-> AllMissing, manifestFile |-> AbsentFile],
      [target |-> "ok", folders |-> AllDirs, manifestFile |-> AbsentFile],
      [target |-> "ok", folders |-> AllDirs, manifestFile |-> GarbageFile],
      [target |-> "ok", folders |-> [AllMissing EXCEPT !["THM"] = "file"],
       manifestFile |-> AbsentFile],
      [target |-> "notdir", folders |-> AllMissing, manifestFile |-> AbsentFile],
      [target |-> "noaccess", folders |-> AllMissing, manifestFile |-> AbsentFile] }

\* history of a request: valid0, the target was usable when the request began;
\* dest0, the destination paths that existed then; lost, the target path has been
\* missing at some moment since; short, free space was below the payload still to
\* copy plus its buffer at one of the request's space checks; copies and saves,
\* the files it has copied and the manifest writes it has made
NoHistory == [valid0 |-> FALSE, dest0 |-> {}, lost |-> FALSE, short |-> FALSE,
              copies |-> 0, saves |-> 0]

NoTmp == [exists |-> FALSE, files |-> {}]

NoCall == [op |-> "none"]

IdleRequest ==
    [pc |-> "idle", overwrite |-> FALSE, files |-> <<>>, steps |-> <<>>,
     tmp_dir |-> NoTmp, prepared |-> <<>>, imported |-> <<>>, idx |-> 0,
     loaded |-> <<>>, response |-> NoResponse]

Init ==
    /\ \E t \in InitTargets :
          /\ target = t.target
          /\ folders = t.folders
          /\ manifestFile = t.manifestFile
    /\ dest = {}
    /\ free = FreeAtStart
    /\ started = 0
    /\ req = [r \in Requests |-> IdleRequest]
    /\ hist = [r \in Requests |-> NoHistory]
    /\ call = NoCall
    /\ ArtAtStart

\* ------------------------------------------------------------------------
\* app/api/routes.py: import_iso, one action per stretch of the handler
\* ------------------------------------------------------------------------

Active(r) == req[r].pc \notin {"idle", "done"}

\* a return statement left out: the response is built and the handler carries on
FallThrough(q, steps, response) ==
    [q EXCEPT !.steps = steps, !.response = response]

\* a return of the handler: the response is set and control goes to the finally block
Return(q, steps, response) ==
    [q EXCEPT !.steps = steps, !.response = response, !.pc = "finally"]

\* the except Exception block
Unexpected(q) ==
    Return(q, Append(q.steps, step("failed", "error", "unexpected error", None)),
           ErrorResponse("unexpected error during import", "retry", 500))

\* the space the specification requires for a payload: the payload plus
\* max(5% of it, 500 MiB)
RequiredBySpec(bytes) == bytes + Max((bytes * 5) \div 100, 500)

\* the sizes of the staged files not yet copied in this run: the file whose turn
\* it is and those after it
NotYetCopied(q) == SumSizes(SubSeq(q.prepared, q.idx, Len(q.prepared)))

\* what the history of a request records when it begins
StartHistory ==
    [NoHistory EXCEPT
        !.valid0 = validate_target_access(target) = "ok" /\ ensure_required_folders(folders).ok,
        !.dest0 = {<<d.folder, d.name>> : d \in dest},
        !.lost = (target = "missing")]

\* initializing, validating_target, ensuring_structure
Prepare(r, files, overwrite) ==
    /\ ~Active(r)
    /\ started < MaxRequests
    /\ started' = started + 1
    /\ LET q0 == [IdleRequest EXCEPT !.overwrite = overwrite, !.files = files]
           s1 == <<step("initializing", "info", "starting import job", None),
                   step("validating_target", "info", "checking target path", None)>>
           reason == validate_target_access(target)
           ensured == ensure_required_folders(folders)
           s2 == Append(s1, step("ensuring_structure", "info", "ensuring required folders", None))
       IN IF reason # "ok"
          THEN /\ req' = [req EXCEPT ![r] =
                    Return(q0, Append(s1, step("validating_target", "error", reason, None)),
                           ErrorResponse("target validation failed",
                                         "fix_target_path_or_permissions", 400))]
               /\ UNCHANGED folders
          ELSE /\ folders' = ensured.folders
               /\ IF ~ensured.ok
                  THEN req' = [req EXCEPT ![r] =
                          Return(q0, Append(s2, step("ensuring_structure", "error",
                                                     "required path exists but is not a directory", None)),
                                 ErrorResponse("invalid target structure",
                                               "fix_target_structure_then_retry", 400))]
                  ELSE req' = [req EXCEPT ![r] =
                          [q0 EXCEPT !.pc = "stage",
                                     !.steps = Append(s2, step("ensuring_structure", "success",
                                                               "required folders are ready", None))]]
    /\ hist' = [hist EXCEPT ![r] = StartHistory]
    /\ UNCHANGED <<target, dest, manifestFile, free, call, artVars>>

\* validating_files: the upload checks and the staging loop
StageOutcome(q, staged) ==
    LET s1 == Append(q.steps, step("validating_files", "info", "validating and staging uploads", None))
        qt == [q EXCEPT !.tmp_dir = [exists |-> TRUE, files |-> staged.tmp],
                        !.prepared = staged.prepared]
    IN IF q.files = <<>>
       THEN Return(q, Append(q.steps, step("validating_files", "error", "no files uploaded", None)),
                   ErrorResponse("no files uploaded", "upload_iso_files", 400))
       ELSE IF staged.err = "empty_name"
       THEN Return(qt, Append(s1, step("validating_files", "error",
                                       "found file with empty filename", None)),
                   ErrorResponse("invalid file name", "upload_valid_iso_files", 400))
       ELSE IF staged.err = "non_iso"
       THEN Return(qt, Append(s1, step("validating_files", "error", "non-iso file detected",
                                       PathName(q.files[Len(staged.prepared) + 1].filename))),
                   ErrorResponse("only .iso files are allowed", "remove_non_iso_files", 400))
       ELSE IF SumSizes(staged.prepared) = 0
       THEN Return(qt, Append(s1, step("validating_files", "error", "uploaded files are empty", None)),
                   ErrorResponse("uploaded files are empty", "upload_valid_iso_files", 400))
       ELSE [qt EXCEPT !.pc = "space",
                       !.steps = Append(s1, step("validating_files", "success",
                                                 "files staged successfully", None))]

Stage(r) ==
    /\ req[r].pc = "stage"
    /\ req' = [req EXCEPT ![r] = StageOutcome(req[r], StageFrom(req[r].files, 1, {}, <<>>))]
    /\ UNCHANGED <<target, folders, dest, manifestFile, free, started, hist, call, artVars>>

\* checking_space: the check against the whole batch
CheckSpace(r) ==
    /\ req[r].pc = "space"
    /\ LET q == req[r]
           s1 == Append(q.steps, step("checking_space", "info", "checking available disk space", None))
           total_iso_bytes == SumSizes(q.prepared)
           required == required_bytes(total_iso_bytes)
       IN req' = [req EXCEPT ![r] =
            IF target = "missing"
            THEN Unexpected([q EXCEPT !.steps = s1])
            ELSE IF free < required
            THEN Return(q, Append(s1, step("checking_space", "error", "not enough free space", None)),
                        [ErrorResponse("insufficient disk space", "free_up_space_then_retry", 400)
                            EXCEPT !.details = SpaceDetails(required, free)])
            ELSE [q EXCEPT !.pc = "check", !.idx = 1,
                           !.steps = s1 \o <<step("checking_space", "success", "disk space is sufficient", None),
                                             step("importing", "info", "copying files to target", None)>>]]
    /\ hist' = [hist EXCEPT ![r].short =
                    @ \/ (target = "ok" /\ free < RequiredBySpec(SumSizes(req[r].prepared)))]
    /\ UNCHANGED <<target, folders, dest, manifestFile, free, started, call, artVars>>

DestExists(folder, name) == \E d \in dest : d.folder = folder /\ d.name = name

ImportedNames(q) == {q.imported[i].file : i \in 1..Len(q.imported)}

\* sum(f["size"] for f in prepared_files if f["name"] not in {i["name"] for i in imported})
RECURSIVE RemainingFrom(_, _, _)
RemainingFrom(prepared, names, i) ==
    IF i > Len(prepared) THEN 0
    ELSE (IF prepared[i].name \in names THEN 0 ELSE prepared[i].size)
         + RemainingFrom(prepared, names, i + 1)

remaining_bytes(q) == RemainingFrom(q.prepared, ImportedNames(q), 1)

dynamic_required(q) == remaining_bytes(q) + compute_buffer(remaining_bytes(q))

\* no collision test at all
CollidesNever(q, item) == FALSE

\* a collision test that forgets the overwrite flag
CollidesAlways(q, item) == DestExists(item.target_folder, item.name)

\* destination.exists() and not overwrite
Collides(q, item) == DestExists(item.target_folder, item.name) /\ ~q.overwrite

\* the checks with the free-space test made before the collision test
CheckSpaceBeforeCollision(r) ==
    /\ req[r].pc = "check"
    /\ LET q == req[r]
           item == q.prepared[q.idx]
       IN req' = [req EXCEPT ![r] =
            IF target = "missing"
            THEN Return(q, Append(q.steps, step("importing", "error",
                                                "target path disappeared during import", None)),
                        ErrorResponse("target path disappeared during import",
                                      "reconnect_target_and_retry", 400))
            ELSE IF free < dynamic_required(q)
            THEN Return(q, Append(q.steps, step("importing", "error",
                                                "disk space dropped during import", item.name)),
                        ErrorResponse("disk space dropped during import",
                                      "free_up_space_then_retry", 400))
            ELSE IF Collides(q, item)
            THEN Return(q, Append(q.steps, step("importing", "error",
                                                "destination file already exists", item.name)),
                        ErrorResponse("destination file already exists",
                                      "enable_overwrite_or_rename_file", 409))
            ELSE [q EXCEPT !.pc = "copy"]]
    /\ hist' = [hist EXCEPT ![r].short =
                    @ \/ (target = "ok" /\ free < RequiredBySpec(NotYetCopied(req[r])))]
    /\ UNCHANGED <<target, folders, dest, manifestFile, free, started, call, artVars>>

\* the checks without the test that the target still exists
CheckWithoutTargetTest(r) ==
    /\ req[r].pc = "check"
    /\ LET q == req[r]
           item == q.prepared[q.idx]
       IN req' = [req EXCEPT ![r] =
            IF Collides(q, item)
            THEN Return(q, Append(q.steps, step("importing", "error",
                                                "destination file already exists", item.name)),
                        ErrorResponse("destination file already exists",
                                      "enable_overwrite_or_rename_file", 409))
            ELSE IF free < dynamic_required(q)
            THEN Return(q, Append(q.steps, step("importing", "error",
                                                "disk space dropped during import", item.name)),
                        ErrorResponse("disk space dropped during import",
                                      "free_up_space_then_retry", 400))
            ELSE [q EXCEPT !.pc = "copy"]]
    /\ hist' = [hist EXCEPT ![r].short =
                    @ \/ (target = "ok" /\ free < RequiredBySpec(NotYetCopied(req[r])))]
    /\ UNCHANGED <<target, folders, dest, manifestFile, free, started, call, artVars>>

\* importing: the three checks made before a file is copied
Check(r) ==
    /\ req[r].pc = "check"
    /\ LET q == req[r]
           item == q.prepared[q.idx]
       IN req' = [req EXCEPT ![r] =
            IF target = "missing"
            THEN Return(q, Append(q.steps, step("importing", "error",
                                                "target path disappeared during import", None)),
                        ErrorResponse("target path disappeared during import",
                                      "reconnect_target_and_retry", 400))
            ELSE IF Collides(q, item)
            THEN Return(q, Append(q.steps, step("importing", "error",
                                                "destination file already exists", item.name)),
                        ErrorResponse("destination file already exists",
                                      "enable_overwrite_or_rename_file", 409))
            ELSE IF free < dynamic_required(q)
            THEN Return(q, Append(q.steps, step("importing", "error",
                                                "disk space dropped during import", item.name)),
                        ErrorResponse("disk space dropped during import",
                                      "free_up_space_then_retry", 400))
            ELSE [q EXCEPT !.pc = "copy"]]
    /\ hist' = [hist EXCEPT ![r].short =
                    @ \/ (target = "ok" /\ free < RequiredBySpec(NotYetCopied(req[r])))]
    /\ UNCHANGED <<target, folders, dest, manifestFile, free, started, call, artVars>>

OldSize(folder, name) ==
    IF DestExists(folder, name)
    THEN (CHOOSE d \in dest : d.folder = folder /\ d.name = name).content.size
    ELSE 0

\* shutil.copy2(item["staged_path"], destination)
Copy(r) ==
    /\ req[r].pc = "copy"
    /\ LET q == req[r]
           item == q.prepared[q.idx]
           old == OldSize(item.target_folder, item.name)
       IN IF target = "ok" /\ folders[item.target_folder] = "dir" /\ free + old >= item.size
          THEN /\ dest' = {d \in dest : ~(d.folder = item.target_folder /\ d.name = item.name)}
                            \cup {[folder |-> item.target_folder, name |-> item.name,
                                   content |-> item.content]}
               /\ free' = free + old - item.size
               /\ req' = [req EXCEPT ![r].pc = "load"]
               /\ hist' = [hist EXCEPT ![r].copies = @ + 1]
          ELSE /\ req' = [req EXCEPT ![r] = Unexpected(q)]
               /\ UNCHANGED <<dest, free, hist>>
    /\ UNCHANGED <<target, folders, manifestFile, started, call, artVars>>

\* a load that waits while another request is between its load and its save
LoadLocked(r) ==
    /\ req[r].pc = "load"
    /\ \A o \in Requests \ {r} : req[o].pc # "save"
    /\ req' = [req EXCEPT ![r].pc = "save",
                          ![r].loaded = IF target = "ok" THEN load_manifest(manifestFile) ELSE <<>>]
    /\ UNCHANGED <<target, folders, dest, manifestFile, free, started, hist, call, artVars>>

\* upsert_manifest_entry, first half: manifest = load_manifest(target)
Load(r) ==
    /\ req[r].pc = "load"
    /\ req' = [req EXCEPT ![r].pc = "save",
                          ![r].loaded = IF target = "ok" THEN load_manifest(manifestFile) ELSE <<>>]
    /\ UNCHANGED <<target, folders, dest, manifestFile, free, started, hist, call, artVars>>

\* load_manifest when opening or reading the existing file raises
LoadFail(r) ==
    /\ req[r].pc = "load"
    /\ target = "ok"
    /\ manifestFile.kind # "absent"
    /\ req' = [req EXCEPT ![r].pc = "save", ![r].loaded = <<>>]
    /\ UNCHANGED <<target, folders, dest, manifestFile, free, started, hist, call, artVars>>

\* int(time.time()): the clock is read as the number of requests received so far
Now == started

\* the entries upsert_manifest_entry writes for the file being imported
Upserted(q, now) ==
    LET item == q.prepared[q.idx]
    IN UpsertEntries(q.loaded, item.source_filename, item.game_name, item.game_id,
                     item.id_source, item.target_folder, item.name, now)

\* the rest of the loop body after the upsert, and the return after the last file
Recorded(q) ==
    LET item == q.prepared[q.idx]
        imported == Append(q.imported,
                           [file |-> item.name, source_filename |-> item.source_filename,
                            game_name |-> item.game_name, game_id |-> item.game_id,
                            id_source |-> item.id_source, target_folder |-> item.target_folder,
                            size |-> item.size])
        s1 == Append(q.steps, step("importing", "success", "file copied", item.name))
    IN IF q.idx < Len(q.prepared)
       THEN [q EXCEPT !.imported = imported, !.steps = s1, !.idx = q.idx + 1, !.pc = "check"]
       ELSE Return([q EXCEPT !.imported = imported],
                   Append(s1, step("completed", "success", "import completed", None)),
                   [status |-> "success", state |-> "completed",
                    message |-> "all files imported successfully", next_action |-> "done",
                    status_code |-> 200, imported |-> imported, details |-> NoDetails])

\* upsert_manifest_entry, second half: update or append, then save_manifest
Save(r) ==
    /\ req[r].pc = "save"
    /\ target = "ok"
    /\ IF folders["CFG"] = "file"
       THEN /\ req' = [req EXCEPT ![r] = Unexpected(req[r])]
            /\ UNCHANGED <<folders, manifestFile, hist>>
       ELSE /\ folders' = [folders EXCEPT !["CFG"] = "dir"]
            /\ manifestFile' = ValidFile(Upserted(req[r], Now))
            /\ req' = [req EXCEPT ![r] = Recorded(req[r])]
            /\ hist' = [hist EXCEPT ![r].saves = @ + 1]
    /\ UNCHANGED <<target, dest, free, started, call, artVars>>

\* save_manifest after the target path has gone: mkdir(parents=True) is refused
SaveRaises(r) ==
    /\ req[r].pc = "save"
    /\ target = "missing"
    /\ req' = [req EXCEPT ![r] = Unexpected(req[r])]
    /\ UNCHANGED <<target, folders, dest, manifestFile, free, started, hist, call, artVars>>

\* save_manifest after the target path has gone: mkdir(parents=True) creates
\* <target>/CFG anew and the manifest is written there
SaveRecreates(r) ==
    /\ req[r].pc = "save"
    /\ target = "missing"
    /\ manifestFile' = ValidFile(Upserted(req[r], Now))
    /\ target' = "ok"
    /\ folders' = [AllMissing EXCEPT !["CFG"] = "dir"]
    /\ req' = [req EXCEPT ![r] = Recorded(req[r])]
    /\ hist' = [hist EXCEPT ![r].saves = @ + 1]
    /\ UNCHANGED <<dest, free, started, call, artVars>>

\* a finally block that removes the staging directory only after a success
CleanupOnSuccessOnly(q) ==
    [q EXCEPT !.pc = "done",
              !.tmp_dir = IF q.response.state = "completed" THEN NoTmp ELSE q.tmp_dir]

\* if tmp_dir and Path(tmp_dir).exists(): shutil.rmtree(tmp_dir, ignore_errors=True)
Cleanup(q) == [q EXCEPT !.pc = "done", !.tmp_dir = NoTmp]

\* the finally block, and the response going out
Finally(r) ==
    /\ req[r].pc = "finally"
    /\ req' = [req EXCEPT ![r] = Cleanup(req[r])]
    /\ UNCHANGED <<target, folders, dest, manifestFile, free, started, hist, call, artVars>>

\* ------------------------------------------------------------------------
\* The environment of the target
\* ------------------------------------------------------------------------

\* another process writes to the target: its free space drops
ExternalWrite ==
    /\ target = "ok"
    /\ \E level \in FreeLevels : level < free /\ free' = level
    /\ UNCHANGED <<target, folders, dest, manifestFile, started, req, hist, call, artVars>>

\* the removable drive is unplugged: the target path and all it held are gone
Unplug ==
    /\ target = "ok"
    /\ target' = "missing"
    /\ folders' = AllMissing
    /\ dest' = {}
    /\ manifestFile' = AbsentFile
    /\ hist' = [r \in Requests |-> IF Active(r) THEN [hist[r] EXCEPT !.lost = TRUE] ELSE hist[r]]
    /\ UNCHANGED <<free, started, req, call, artVars>>

\* ------------------------------------------------------------------------
\* Specifications
\* ------------------------------------------------------------------------

\* a deployment with one worker: requests are handled one at a time
Worker == CHOOSE r \in Requests : \A o \in Requests : r <= o

PrepareAlone(r) ==
    /\ r = Worker
    /\ \E files \in Batches, overwrite \in BOOLEAN : Prepare(r, files, overwrite)

Handler(r) ==
    \/ Stage(r) \/ CheckSpace(r) \/ Check(r) \/ Copy(r)
    \/ Load(r) \/ LoadFail(r) \/ Save(r) \/ SaveRaises(r) \/ SaveRecreates(r)
    \/ Finally(r)

Next ==
    \/ PrepareAlone(Worker)
    \/ Handler(Worker)
    \/ ExternalWrite
    \/ Unplug

Spec == Init /\ [][Next]_vars

\* two server processes on the same target: each runs import_iso on its own and
\* the steps of the two interleave; the target is left alone by everything else
ConcUploads ==
    { Upload(NameA, 700, None),
      Upload(NameA, 100, CnfSlus),
      Upload(NameSlusA, 100, CnfSlus) }

PrepareConc(r) ==
    \E u \in ConcUploads, overwrite \in BOOLEAN : Prepare(r, <<u>>, overwrite)

HandlerConc(r) ==
    \/ Stage(r) \/ CheckSpace(r) \/ Check(r) \/ Copy(r)
    \/ Load(r) \/ Save(r) \/ Finally(r)

NextConc == \E r \in Requests : PrepareConc(r) \/ HandlerConc(r)

SpecConc == Init /\ [][NextConc]_vars


\* ------------------------------------------------------------------------
\* Calls of resolve_game_id_for_target (the art endpoints) on a target whose
\* manifest earlier imports have written
\* ------------------------------------------------------------------------

IdSlusOne == <<"S", "L", "U", "S", "_", "1", "1", "1", ".", "1", "1">>
NameLowerId == <<"s", "l", "u", "s", "_", "1", "1", "1", ".", "1", "1", ".", "a", ".", "i", "s", "o">>
NameNoSep == <<"S", "L", "U", "S", "_", "1", "1", "1", ".", "1", "1", "a", ".", "i", "s", "o">>
NameInDir == <<"d", "/", "S", "L", "U", "S", "_", "1", "1", "1", ".", "1", "1", "_", "a", ".", "i", "s", "o">>
GameA == <<"a">>
GameBC == <<"b", " ", "c">>
IdTwo == <<"S", "L", "U", "S", "_", "2", "2", "2", ".", "2", "2">>
IdThree == <<"S", "L", "U", "S", "_", "3", "3", "3", ".", "3", "3">>
IdFour == <<"S", "L", "U", "S", "_", "4", "4", "4", ".", "4", "4">>

EntryA == ManifestEntry(NameA, GameA, IdTwo, "iso", "CD", IdTwo \o <<"_">> \o NameA, 1)
EntrySlusA == ManifestEntry(NameSlusA, GameA, IdThree, "iso", "CD", IdThree \o <<"_">> \o NameA, 1)
EntryBC == ManifestEntry(NameSeven, GameBC, IdFour, "iso", "DVD", IdFour \o <<"_">> \o NameSeven, 1)

ResolveManifests ==
    { AbsentFile, GarbageFile, ValidFile(<<EntryA>>), ValidFile(<<EntrySlusA, EntryA>>),
      ValidFile(<<EntryBC>>), ValidFile(<<EntryBC, EntryA>>) }
ResolveFilenames == {None, <<>>, NameA, NameSlusA, NameLowerId, NameNoSep, NameInDir, NameSeven}
ResolveGameNames == {None, <<" ">>, GameA, GameBC}

InitResolve ==
    /\ target = "ok"
    /\ folders = AllDirs
    /\ manifestFile \in ResolveManifests
    /\ dest = {}
    /\ free = FreeAtStart
    /\ started = 0
    /\ req = [r \in Requests |-> IdleRequest]
    /\ hist = [r \in Requests |-> NoHistory]
    /\ call = NoCall
    /\ ArtAtStart

\* one call, with the target given or not
ResolveCall ==
    /\ \E t \in {NoTarget, manifestFile}, game_name \in ResolveGameNames,
          source_filename \in ResolveFilenames :
          call' = [op |-> "resolve_game_id_for_target", target |-> t,
                   game_name |-> game_name, source_filename |-> source_filename,
                   result |-> resolve_game_id_for_target(t, game_name, source_filename)]
    /\ UNCHANGED <<target, folders, dest, manifestFile, free, started, req, hist, artVars>>

SpecResolve == InitResolve /\ [][ResolveCall]_vars

\* ------------------------------------------------------------------------
\* Imports of single files of the sizes the documented scenarios use
\* ------------------------------------------------------------------------

NameSlusGame == <<"S", "L", "U", "S", "_", "2", "0", "9", ".", "4", "6", "_", "G", "a", "m", "e", ".", "i", "s", "o">>

ScenarioUploads == {Upload(NameSlusGame, 600, None), Upload(NameA, 900, None)}

PrepareScenario(r) ==
    /\ r = Worker
    /\ \E u \in ScenarioUploads, overwrite \in BOOLEAN : Prepare(r, <<u>>, overwrite)

NextScenario ==
    \/ PrepareScenario(Worker)
    \/ Handler(Worker)
    \/ ExternalWrite
    \/ Unplug

SpecScenario == Init /\ [][NextScenario]_vars

\* ------------------------------------------------------------------------
\* Calls of lookup_game_id_from_manifest on manifests that were edited by hand:
\* the keys of an entry need not agree with its names
\* ------------------------------------------------------------------------

NamePaddedA == <<" ">> \o NameA
KeyOther == <<"z">>

\* matches a.iso by its source key only
EntryByKey == [EntryA EXCEPT !.source_filename = NameSeven, !.game_name_key = KeyOther]
\* matches a.iso by its source filename only
EntryByName == [EntryA EXCEPT !.source_key = KeyOther, !.destination_key = KeyOther,
                              !.game_name_key = KeyOther, !.game_id = IdThree]
\* matches the game name a only
EntryByGame == [EntryA EXCEPT !.source_filename = NameSeven, !.source_key = KeyOther,
                              !.destination_filename = NameSeven,
                              !.destination_key = KeyOther, !.game_id = IdFour]
\* matches a.iso by its destination key only
EntryByDestination == [EntryByGame EXCEPT !.destination_key = EntryA.source_key,
                                          !.game_name_key = KeyOther,
                                          !.game_id = IdSlusOne]
\* matches on every key and holds no game_id
EntryWithoutId == [EntryA EXCEPT !.game_id = <<>>]

LookupEntries == {EntryByKey, EntryByName, EntryByGame, EntryByDestination, EntryWithoutId}
MaxEntries == 3
LookupManifests ==
    {AbsentFile, GarbageFile}
        \cup {ValidFile(entries) : entries \in UNION {[1..n -> LookupEntries] : n \in 0..MaxEntries}}
LookupFilenames == {None, NameA, NamePaddedA, NameSeven}
LookupGameNames == {None, GameA}

InitLookup ==
    /\ target = "ok"
    /\ folders = AllDirs
    /\ manifestFile \in LookupManifests
    /\ dest = {}
    /\ free = FreeAtStart
    /\ started = 0
    /\ req = [r \in Requests |-> IdleRequest]
    /\ hist = [r \in Requests |-> NoHistory]
    /\ call = NoCall
    /\ ArtAtStart

LookupCall ==
    /\ \E source_filename \in LookupFilenames, game_name \in LookupGameNames :
          call' = [op |-> "lookup_game_id_from_manifest",
                   source_filename |-> source_filename, game_name |-> game_name,
                   result |-> lookup_game_id_from_manifest(manifestFile, source_filename,
                                                           game_name)]
    /\ UNCHANGED <<target, folders, dest, manifestFile, free, started, req, hist, artVars>>

SpecLookup == InitLookup /\ [][LookupCall]_vars

\* ------------------------------------------------------------------------
\* Calls of load_manifest on manifest files of every shape
\* ------------------------------------------------------------------------

LoadEntryLists == UNION {[1..n -> LookupEntries] : n \in 0..MaxEntries}

LoadManifests ==
    {AbsentFile, GarbageFile, BadEntriesFile}
        \cup {ValidFile(entries) : entries \in LoadEntryLists}
        \cup {UnreadableFile(entries) : entries \in LoadEntryLists}
        \cup {TopLevelList(entries) : entries \in LoadEntryLists}

InitLoad ==
    /\ target = "ok"
    /\ folders = AllDirs
    /\ manifestFile \in LoadManifests
    /\ dest = {}
    /\ free = FreeAtStart
    /\ started = 0
    /\ req = [r \in Requests |-> IdleRequest]
    /\ hist = [r \in Requests |-> NoHistory]
    /\ call = NoCall
    /\ ArtAtStart

LoadCall ==
    /\ call' = [op |-> "load_manifest", file |-> manifestFile,
                result |-> load_manifest(manifestFile)]
    /\ UNCHANGED <<target, folders, dest, manifestFile, free, started, req, hist, artVars>>

SpecLoad == InitLoad /\ [][LoadCall]_vars

\* ------------------------------------------------------------------------
\* Calls of normalize_game_id on well-formed and ill-formed ids
\* ------------------------------------------------------------------------

IdLetters == {<<"S", "L", "U", "S">>, <<"s", "l", "u", "s">>, <<"S", "l", "U", "s">>,
              <<"7", "L", "U", "S">>, <<"S", "L", "U">>}
IdSeparators == {<<"_">>, <<"-">>, <<>>}
IdNumbers == {<<"1", "1", "1", ".", "1", "1">>, <<"1", "1", "1", "1", "1">>,
              <<"1", "1", ".", "1", "1", "1">>, <<"1", "1", "1", ".", "1", "a">>,
              <<"1", "1", "1", ".", "1", "1", "1">>}
IdPaddings == {<<>>, <<" ">>}

GameIdInputs ==
    {<<>>, <<" ">>}
        \cup {lead \o letters \o sep \o number \o trail :
                 lead \in IdPaddings, letters \in IdLetters, sep \in IdSeparators,
                 number \in IdNumbers, trail \in IdPaddings}

\* one call, and a second call on what the first returned
NormalizeCall ==
    /\ \E game_id \in GameIdInputs :
          LET normalized == normalize_game_id(game_id)
          IN call' = [op |-> "normalize_game_id", game_id |-> game_id,
                      result |-> normalized,
                      again |-> IF normalized = None THEN None
                                ELSE normalize_game_id(normalized)]
    /\ UNCHANGED <<target, folders, dest, manifestFile, free, started, req, hist, artVars>>

\* the service functions are called on a target that is in order
InitCalls == Init /\ target = "ok" /\ folders = AllDirs /\ manifestFile = AbsentFile

SpecNormalize == InitCalls /\ [][NormalizeCall]_vars

\* ------------------------------------------------------------------------
\* Calls of generate_game_id, with the target changing between them
\* ------------------------------------------------------------------------

GenerateSeeds == {<<>>, GameA, GameBC, <<"7">>, <<"0">>, <<"a", " ">>}

\* one call; the call keeps the head of the seed's hash and the seeds and
\* results of the calls made before it
GenerateCall ==
    /\ \E seed \in GenerateSeeds :
          call' = [op |-> "generate_game_id", seed |-> seed,
                   head |-> Sha1Head(seed),
                   result |-> generate_game_id(seed),
                   earlier |-> IF call.op = "generate_game_id"
                               THEN call.earlier \cup {<<call.seed, call.result>>}
                               ELSE {}]
    /\ UNCHANGED <<target, folders, dest, manifestFile, free, started, req, hist, artVars>>

NextGenerate ==
    \/ GenerateCall
    \/ ExternalWrite
    \/ Unplug

SpecGenerate == InitCalls /\ [][NextGenerate]_vars

\* ------------------------------------------------------------------------
\* Imports of single files whose names and disc metadata vary
\* ------------------------------------------------------------------------

NameLowerSlusA == <<"s", "l", "u", "s", "_", "1", "1", "1", ".", "1", "1", "_", "a", ".", "i", "s", "o">>
\* a name that already carries the id generated for it
NameGeneratedA == generate_game_id(GameA) \o <<"_">> \o NameA
\* a SYSTEM.CNF without an id, and one naming another disc
CnfNoId == <<"b", "o", "o", "t">>
CnfTwo == <<"c", "d", "r", "o", "m", "0", ":", "\\">> \o IdTwo \o <<";", "1">>

StagingNames == {NameA, NameSlusA, NameLowerSlusA, NameLowerId, NameGeneratedA}
StagingCnfs == {None, <<>>, CnfNoId, CnfSlus, CnfTwo}
StagingUploads == {Upload(n, 100, c) : n \in StagingNames, c \in StagingCnfs}

PrepareStaging(r) ==
    /\ r = Worker
    /\ \E u \in StagingUploads, overwrite \in BOOLEAN : Prepare(r, <<u>>, overwrite)

\* no other process writes to the target
NextStaging ==
    \/ PrepareStaging(Worker)
    \/ Handler(Worker)
    \/ Unplug

SpecStaging == Init /\ [][NextStaging]_vars

\* ------------------------------------------------------------------------
\* The space accountant on payloads of many sizes
\* ------------------------------------------------------------------------

\* payloads go up to MaxPayloadUnits steps of PayloadUnit MiB
MaxPayloadUnits == 100
PayloadUnit == 256
Payloads == {k * PayloadUnit : k \in 0..MaxPayloadUnits} \cup (9990..10030)

RequiredCall ==
    /\ \E total \in Payloads :
          call' = [op |-> "required_bytes", total |-> total,
                   buffer |-> compute_buffer(total), result |-> required_bytes(total)]
    /\ UNCHANGED <<target, folders, dest, manifestFile, free, started, req, hist, artVars>>

SpecSpace == Init /\ [][RequiredCall]_vars

\* ------------------------------------------------------------------------
\* app/api/routes.py: validate_target, next to imports, on a target whose
\* folders the user removes or replaces by files
\* ------------------------------------------------------------------------

\* sorted([f for f in REQUIRED_FOLDERS if (target / f).exists()]): REQUIRED_FOLDERS
\* is in sorted order, and a name that is a file exists too
IsPresent(folder) == folders'[folder] # "missing"
ExistingFolders == SelectSeq(REQUIRED_FOLDERS, IsPresent)

ValidateResponse(status, state, message, existing, created) ==
    [status |-> status, state |-> state, message |-> message,
     existing |-> existing, created |-> created]

\* the last call was a validation with folder creation that succeeded, and the
\* target and its folders are as that call left them
ValidatedJustBefore ==
    /\ call.op = "validate_target"
    /\ call.ensure_folders
    /\ call.response.status = "success"
    /\ target = "ok"
    /\ folders = call.folders

\* the validate_target endpoint; the call keeps the arguments, the folders as
\* the call left them, the response, and whether it repeats a validation (and
\* what that one had created)
ValidateCall ==
    /\ \E ensure_folders \in BOOLEAN :
          LET reason == validate_target_access(target)
              ensured == ensure_required_folders(folders)
          IN /\ folders' = IF reason = "ok" /\ ensure_folders THEN ensured.folders ELSE folders
             /\ call' = [op |-> "validate_target", ensure_folders |-> ensure_folders,
                         folders |-> folders',
                         repeats |-> ValidatedJustBefore,
                         previously_created |->
                            IF ValidatedJustBefore THEN call.response.created ELSE <<>>,
                         response |->
                            IF reason # "ok"
                            THEN ValidateResponse("error", "failed", "target validation failed",
                                                  <<>>, <<>>)
                            ELSE IF ensure_folders /\ ~ensured.ok
                            THEN ValidateResponse("error", "failed", "invalid target structure",
                                                  <<>>, <<>>)
                            ELSE ValidateResponse("success", "validated",
                                                  "target path is valid and ready",
                                                  ExistingFolders,
                                                  IF ensure_folders THEN ensured.created ELSE <<>>)]
    /\ UNCHANGED <<target, dest, manifestFile, free, started, req, hist, artVars>>

\* the folders the user tampers with; import_iso keeps no files in them
FragileFolders == {"APPS", "VMC"}

\* the user removes a required folder or puts a file in its place
BreakFolder ==
    /\ target = "ok"
    /\ \E f \in FragileFolders, kind \in {"missing", "file"} :
          /\ folders[f] # kind
          /\ folders' = [folders EXCEPT ![f] = kind]
    /\ UNCHANGED <<target, dest, manifestFile, free, started, req, hist, call, artVars>>

NextTarget ==
    \/ ValidateCall
    \/ BreakFolder
    \/ PrepareScenario(Worker)
    \/ Handler(Worker)
    \/ Unplug

SpecTarget == Init /\ [][NextTarget]_vars

\* ------------------------------------------------------------------------
\* The staging loop of import_iso on batches whose uploads share names
\* ------------------------------------------------------------------------

\* uploads of one batch
MaxBatch == 3

NameA1 == <<"a", "_", "1", ".", "i", "s", "o">>
NameDirA == <<"d", "/", "a", ".", "i", "s", "o">>

\* names that collide with each other and with generated names; sizes tell the
\* uploads of one name apart
BatchUploads ==
    { Upload(NameA, 100, None), Upload(NameA, 200, None), Upload(NameA1, 100, None),
      Upload(NameDirA, 100, None), Upload(NameTxt, 100, None) }

\* one run of the staging loop; the call keeps the batch and what the loop left
StageCall ==
    /\ \E n \in 0..MaxBatch : \E files \in [1..n -> BatchUploads] :
          LET staged == StageFrom(files, 1, {}, <<>>)
          IN call' = [op |-> "stage", files |-> files, err |-> staged.err,
                      tmp |-> staged.tmp, prepared |-> staged.prepared]
    /\ UNCHANGED <<target, folders, dest, manifestFile, free, started, req, hist, artVars>>

SpecBatch == InitCalls /\ [][StageCall]_vars

\* ------------------------------------------------------------------------
\* Sequential calls of upsert_manifest_entry, each followed by lookups
\* ------------------------------------------------------------------------

NameADrift == <<"A", "-", ".", "i", "s", "o">>
NameX == <<"x", ".", "i", "s", "o">>
NameB == <<"b", ".", "i", "s", "o">>

\* source filenames, two of them with the same normalized stem, and destination
\* filenames, one of them the name of a source
RoundTripSources == {NameA, NameADrift, NameX}
RoundTripDestinations == {NameA, NameB}
RoundTripIds == {IdTwo, IdThree}

\* upsert_manifest_entry on the manifest the calls before it left, then
\* lookup_game_id_from_manifest for every source filename
UpsertCall ==
    /\ \E f \in RoundTripSources, d \in RoundTripDestinations, g \in RoundTripIds :
          LET saved == UpsertEntries(load_manifest(manifestFile), f, GameA, g, "iso", "CD", d, 0)
          IN /\ Len(saved) <= MaxEntries
             /\ manifestFile' = ValidFile(saved)
             /\ call' = [op |-> "upsert_manifest_entry", source_filename |-> f,
                         destination_filename |-> d, game_id |-> g,
                         found |-> [n \in RoundTripSources |->
                                       lookup_game_id_from_manifest(ValidFile(saved), n, None)]]
    /\ UNCHANGED <<target, folders, dest, free, started, req, hist, artVars>>

SpecRoundTrip == InitCalls /\ [][UpsertCall]_vars

\* ------------------------------------------------------------------------
\* Imports on a target nothing else writes to, with free space at and around
\* the required amount
\* ------------------------------------------------------------------------

QuietUploads ==
    { Upload(NameA, 100, None), Upload(NameA, 700, None),
      Upload(NameSeven, 700, None), Upload(NameSlusA, 100, CnfSlus) }

\* free space, in MiB, at the start: short of, equal to and above what two
\* files of 100 and 700 MiB require
QuietFreeLevels == {1000, 1300, 1900, 2048}

InitQuiet ==
    /\ target = "ok"
    /\ folders = AllDirs
    /\ manifestFile = AbsentFile
    /\ dest = {}
    /\ free \in QuietFreeLevels
    /\ started = 0
    /\ req = [r \in Requests |-> IdleRequest]
    /\ hist = [r \in Requests |-> NoHistory]
    /\ call = NoCall
    /\ ArtAtStart

PrepareQuiet(r) ==
    /\ r = Worker
    /\ \E n \in 1..MaxFiles : \E files \in [1..n -> QuietUploads], overwrite \in BOOLEAN :
          Prepare(r, files, overwrite)

NextQuiet ==
    \/ PrepareQuiet(Worker)
    \/ Stage(Worker)
    \/ CheckSpace(Worker)
    \/ Check(Worker)
    \/ Copy(Worker)
    \/ Load(Worker)
    \/ Save(Worker)
    \/ Finally(Worker)

SpecQuiet == InitQuiet /\ [][NextQuiet]_vars

\* ------------------------------------------------------------------------
\* The resolver of app/main.py and the resolver of the service, called with
\* the same arguments
\* ------------------------------------------------------------------------

NameSlusDot == <<"S", "L", "U", "S", "_", "1", "1", "1", ".", "1", "1", ".", "a", ".", "i", "s", "o">>
NameSlusDash == <<"S", "L", "U", "S", "_", "1", "1", "1", ".", "1", "1", "-", "a", ".", "i", "s", "o">>
NameSlusSpace == <<"S", "L", "U", "S", "_", "1", "1", "1", ".", "1", "1", " ", "a", ".", "i", "s", "o">>

\* filenames whose id is followed by each of the separators, with one, and by none
CopiesFilenames ==
    {None, NameA, NameSlusA, NameLowerId, NameNoSep, NameSlusDot, NameSlusDash, NameSlusSpace}

ResolveBothCall ==
    /\ \E t \in {NoTarget, manifestFile}, game_name \in ResolveGameNames,
          source_filename \in CopiesFilenames :
          call' = [op |-> "resolve_both", target |-> t,
                   game_name |-> game_name, source_filename |-> source_filename,
                   from_service |-> extract_game_id_from_filename(source_filename),
                   from_main |-> _extract_game_id_from_filename(source_filename),
                   service |-> resolve_game_id_for_target(t, game_name, source_filename),
                   main |-> _resolve_game_id_for_target(t, game_name, source_filename)]
    /\ UNCHANGED <<target, folders, dest, manifestFile, free, started, req, hist, artVars>>

SpecCopies == InitResolve /\ [][ResolveBothCall]_vars

\* ------------------------------------------------------------------------
\* app/services/format_service.py and app/api/routes.py: format_target.
\* A diskutil report is a record: ok, the command succeeded; a field of the
\* property list is "missing" or holds its value
\* ------------------------------------------------------------------------

Darwin == <<"D", "a", "r", "w", "i", "n">>
Linux == <<"L", "i", "n", "u", "x">>

\* platform.system().lower() == "darwin"
is_macos(system) == StrLower(system) = StrLower(Darwin)

IsLabelChar(c) == IsAlnum(c) \/ c \in {"_", "-"}

\* sanitize_volume_label
sanitize_volume_label(label) ==
    LET sanitized == StrUpper(SelectSeq(label, IsLabelChar))
    IN Take(IF sanitized = <<>> THEN <<"P", "S", "2", "U", "S", "B">> ELSE sanitized, 11)

FormatRefused(error) == [error |-> error, whole_disk |-> "missing"]

\* a validation in which a whole disk without the Internal field passes
validate_without_internal_default(info, whole_info) ==
    LET whole_disk == IF info.ParentWholeDisk # "missing" THEN info.ParentWholeDisk
                      ELSE info.DeviceIdentifier
    IN IF ~info.ok THEN FormatRefused("diskutil info failed")
       ELSE IF whole_disk = "missing"
       THEN FormatRefused("could not identify disk device from target path")
       ELSE IF ~whole_info.ok THEN FormatRefused("diskutil info failed")
       ELSE IF whole_info.Internal = "true"
       THEN FormatRefused("refusing to format an internal disk")
       ELSE IF ~(whole_info.RemovableMedia = "true" \/ info.RemovableMedia = "true")
       THEN FormatRefused("target is not marked as removable media")
       ELSE [error |-> "none", whole_disk |-> whole_disk]

\* validate_format_target: the RuntimeError raised, or the whole disk's name
validate_format_target(info, whole_info) ==
    LET whole_disk == IF info.ParentWholeDisk # "missing" THEN info.ParentWholeDisk
                      ELSE info.DeviceIdentifier
    IN IF ~info.ok THEN FormatRefused("diskutil info failed")
       ELSE IF whole_disk = "missing"
       THEN FormatRefused("could not identify disk device from target path")
       ELSE IF ~whole_info.ok THEN FormatRefused("diskutil info failed")
       ELSE IF whole_info.Internal # "false"
       THEN FormatRefused("refusing to format an internal disk")
       ELSE IF ~(whole_info.RemovableMedia = "true" \/ info.RemovableMedia = "true")
       THEN FormatRefused("target is not marked as removable media")
       ELSE [error |-> "none", whole_disk |-> whole_disk]

\* the diskutil commands validate_format_target runs before it returns or raises
ValidationCommands(info) ==
    IF info.ok /\ (info.ParentWholeDisk # "missing" \/ info.DeviceIdentifier # "missing")
    THEN <<"info target", "info whole disk">>
    ELSE <<"info target">>

FormatResult(commands, message, status_code, label, erased) ==
    [commands |-> commands, message |-> message, status_code |-> status_code,
     label |-> label, erased |-> erased]

\* format_target: the commands it runs, in order, and its response; w is what
\* the machine answers: its platform, whether the target path exists, the two
\* diskutil reports, whether eraseDisk succeeds and whether the volume mounts
format_target(confirm_phrase, volume_label, w) ==
    LET checked == validate_format_target(w.info, w.whole_info)
        inspected == ValidationCommands(w.info)
        label == sanitize_volume_label(volume_label)
    IN IF ~is_macos(w.system)
       THEN FormatResult(<<>>, "formatting is supported only on macOS", 400, <<>>, FALSE)
       ELSE IF StrUpper(StrStrip(confirm_phrase)) # <<"F", "O", "R", "M", "A", "T">>
       THEN FormatResult(<<>>, "confirmation phrase mismatch", 400, <<>>, FALSE)
       ELSE IF ~w.exists
       THEN FormatResult(<<>>, "target path does not exist", 400, <<>>, FALSE)
       ELSE IF checked.error # "none"
       THEN FormatResult(inspected, "unexpected error during format", 500, <<>>, FALSE)
       ELSE IF ~w.erase_ok
       THEN FormatResult(Append(inspected, "eraseDisk"), "format command failed", 500, label, FALSE)
       ELSE IF ~w.mounts
       THEN FormatResult(inspected \o <<"eraseDisk", "list">>,
                         "unexpected error during format", 500, label, TRUE)
       ELSE FormatResult(inspected \o <<"eraseDisk", "list">>,
                         "usb formatted and prepared successfully", 200, label, TRUE)

FieldValues == {"missing", "true", "false"}

\* the reports diskutil can give
DiskReports ==
    [ok : BOOLEAN, ParentWholeDisk : {"missing", "disk2"}, DeviceIdentifier : {"missing", "disk2s1"},
     RemovableMedia : FieldValues]
WholeReports == [ok : BOOLEAN, Internal : FieldValues, RemovableMedia : FieldValues]

Machines ==
    [system : {Darwin, Linux}, exists : BOOLEAN, info : DiskReports,
     whole_info : WholeReports, erase_ok : BOOLEAN, mounts : BOOLEAN]

PhraseFormat == <<"F", "O", "R", "M", "A", "T">>
PhrasePadded == <<" ", "f", "o", "r", "m", "a", "t", " ">>
PhraseShort == <<"F", "O", "R", "M", "A">>
PhraseYes == <<"y", "e", "s">>
ConfirmPhrases == {PhraseFormat, PhrasePadded, PhraseShort, PhraseYes}

\* a request waiting to be served, on a target that holds the required folders
InitFormat ==
    /\ target = "ok"
    /\ folders = AllDirs
    /\ manifestFile = AbsentFile
    /\ dest = {}
    /\ free = FreeAtStart
    /\ started = 0
    /\ req = [r \in Requests |-> IdleRequest]
    /\ hist = [r \in Requests |-> NoHistory]
    /\ \E confirm_phrase \in ConfirmPhrases, w \in Machines :
          call = [op |-> "format_request", confirm_phrase |-> confirm_phrase, machine |-> w]
    /\ ArtAtStart

\* the request is served: an erased disk comes back empty, and the handler
\* creates the required folders on the volume that mounted
FormatCall ==
    /\ call.op = "format_request"
    /\ LET w == call.machine
           result == format_target(call.confirm_phrase, <<"p", "s", " ", "2">>, w)
       IN /\ call' = [op |-> "format_target", confirm_phrase |-> call.confirm_phrase,
                      machine |-> w, result |-> result]
          /\ IF result.erased
             THEN /\ dest' = {}
                  /\ manifestFile' = AbsentFile
                  /\ folders' = IF w.mounts THEN ensure_required_folders(AllMissing).folders
                                ELSE AllMissing
             ELSE UNCHANGED <<dest, manifestFile, folders>>
    /\ UNCHANGED <<target, free, started, req, hist, artVars>>

SpecFormat == InitFormat /\ [][FormatCall]_vars

\* ------------------------------------------------------------------------
\* Calls of enforce_art_search_rate_limit with the time of the call, in the
\* order the clock gives them
\* ------------------------------------------------------------------------

importVars == <<target, folders, dest, manifestFile, free, started, req, hist>>

\* time passes
TickTo(last) ==
    /\ clock < last
    /\ clock' = clock + 1
    /\ UNCHANGED <<importVars, call, _ART_SEARCH_CACHE, _ART_SEARCH_CLIENT_LIMITS, searches, granted>>

LimitCall(client_id) ==
    LET verdict == enforce_art_search_rate_limit(_ART_SEARCH_CLIENT_LIMITS, client_id, clock)
    IN /\ _ART_SEARCH_CLIENT_LIMITS' = verdict.limits
       /\ granted' = IF verdict.allowed
                     THEN [granted EXCEPT ![client_id] = @ \cup {clock}]
                     ELSE granted
       /\ call' = [op |-> "enforce_art_search_rate_limit", client_id |-> client_id,
                   now_ts |-> clock, allowed |-> verdict.allowed, reason |-> verdict.reason,
                   retry_after |-> verdict.retry_after,
                   before |-> _ART_SEARCH_CLIENT_LIMITS[client_id],
                   after |-> verdict.limits[client_id]]
       /\ UNCHANGED <<importVars, _ART_SEARCH_CACHE, clock, searches>>

NextLimiter ==
    \/ TickTo(MaxLimiterClock)
    \/ \E c \in Clients : LimitCall(c)

SpecLimiter == InitCalls /\ [][NextLimiter]_vars

\* ------------------------------------------------------------------------
\* app/api/routes.py: search_art, each request on a thread of its own; one
\* action per stretch between two uses of the lock
\* ------------------------------------------------------------------------

Rawg == <<"r", "a", "w", "g">>
CoverArt == <<" ", "P", "S", "2", " ", "c", "o", "v", "e", "r", " ", "a", "r", "t">>

\* payload.game_name; no target path and no source filename are sent
ArtGameNames == {None, GameA, GameBC, <<"7">>}
\* payload.max_results
MaxResults == CHOOSE n \in {10} : TRUE

\* what search_art_candidates answers: candidates, an empty list, or a RuntimeError
ProviderAnswers == {<<"c1">>, <<>>, <<"error">>}

\* the handler returns: its locals are gone, the response is what is left
Answered(status_code, message, cache_hit, candidates) ==
    [IdleSearch EXCEPT !.pc = "done", !.status_code = status_code, !.message = message,
                       !.cache_hit = cache_hit, !.candidates = candidates]

\* request.client.host: each worker thread serves the connection of one client
ClientOf(r) == IF r = 1 THEN "10.0.0.1" ELSE "10.0.0.2"

\* from the start of the handler to now_ts = time.time() and the cache key
ArtBegin(r) ==
    /\ searches[r].pc \in {"idle", "done"}
    /\ \E game_name \in ArtGameNames :
          LET q == [IdleSearch EXCEPT !.client = ClientOf(r)]
              game_query == StrStrip(OrEmpty(game_name))
              resolved == resolve_game_id_for_target(NoTarget, game_query, None)
          IN searches' = [searches EXCEPT ![r] =
                IF game_query = <<>>
                THEN Answered(400, "game_name or source_filename is required", FALSE, None)
                ELSE [q EXCEPT !.pc = "get", !.game_query = game_query,
                               !.game_id = resolved.game_id, !.now_ts = clock,
                               !.cache_key = art_search_cache_key(Rawg, resolved.game_id,
                                                                  game_query \o CoverArt, MaxResults)]]
    /\ UNCHANGED <<importVars, call, _ART_SEARCH_CACHE, _ART_SEARCH_CLIENT_LIMITS, clock, granted>>

\* cached = get_cached_art_search(cache_key, now_ts), and the answer from the cache
ArtGet(r) ==
    /\ searches[r].pc = "get"
    /\ LET q == searches[r]
           got == get_cached_art_search(_ART_SEARCH_CACHE, q.cache_key, q.now_ts)
       IN /\ _ART_SEARCH_CACHE' = got.cache
          /\ searches' = [searches EXCEPT ![r] =
                IF got.result # None
                THEN Answered(200, "art candidates ready for preview", TRUE, got.result)
                ELSE [q EXCEPT !.pc = "limit"]]
    /\ UNCHANGED <<importVars, call, _ART_SEARCH_CLIENT_LIMITS, clock, granted>>

\* enforce_art_search_rate_limit(client_id, now_ts), and the 429
ArtLimit(r) ==
    /\ searches[r].pc = "limit"
    /\ LET q == searches[r]
           verdict == enforce_art_search_rate_limit(_ART_SEARCH_CLIENT_LIMITS, q.client, q.now_ts)
       IN /\ _ART_SEARCH_CLIENT_LIMITS' = verdict.limits
          /\ searches' = [searches EXCEPT ![r] =
                IF verdict.allowed THEN [q EXCEPT !.pc = "provider"]
                ELSE Answered(429, verdict.reason, FALSE, None)]
    /\ UNCHANGED <<importVars, call, _ART_SEARCH_CACHE, clock, granted>>

\* search_art_candidates(query, max_results), outside the lock
ArtProvider(r) ==
    /\ searches[r].pc = "provider"
    /\ \E answer \in ProviderAnswers :
          searches' = [searches EXCEPT ![r] =
             IF answer = <<"error">>
             THEN Answered(400, "provider error", FALSE, None)
             ELSE IF answer = <<>>
             THEN Answered(404, "no art candidates found", FALSE, None)
             ELSE [searches[r] EXCEPT !.pc = "store", !.candidates = answer]]
    /\ UNCHANGED <<importVars, call, _ART_SEARCH_CACHE, _ART_SEARCH_CLIENT_LIMITS, clock, granted>>

\* store_cached_art_search(cache_key, candidates, now_ts), and the answer
ArtStore(r) ==
    /\ searches[r].pc = "store"
    /\ LET q == searches[r]
       IN /\ _ART_SEARCH_CACHE' =
                store_cached_art_search(_ART_SEARCH_CACHE, q.cache_key, q.candidates, q.now_ts)
          /\ searches' = [searches EXCEPT ![r] =
                Answered(200, "art candidates ready for preview", FALSE, q.candidates)]
    /\ UNCHANGED <<importVars, call, _ART_SEARCH_CLIENT_LIMITS, clock, granted>>

NextArt ==
    \/ TickTo(MaxClock)
    \/ \E r \in Requests : ArtBegin(r) \/ ArtGet(r) \/ ArtLimit(r) \/ ArtProvider(r) \/ ArtStore(r)

SpecArt == InitCalls /\ [][NextArt]_vars

\* ------------------------------------------------------------------------
\* Properties
\* ------------------------------------------------------------------------

Finished(q) == q.pc \in {"finally", "done"}

UploadName(q, i) == PathName(q.files[i].filename)

\* N >= 1 uploads, each with a base name ending in .iso, of pairwise distinct
\* names and not all empty
ValidBatch(q) ==
    /\ Len(q.files) >= 1
    /\ \A i \in 1..Len(q.files) :
          UploadName(q, i) # <<>> /\ StrLower(PathSuffix(UploadName(q, i))) = DotIso
    /\ \A i, j \in 1..Len(q.files) : i # j => UploadName(q, i) # UploadName(q, j)
    /\ SumSizes(q.files) > 0

\* the target was usable and stayed present, free space never was below the
\* required amount, and no destination existed beforehand unless overwrite is on
CalmRun(q, h) ==
    /\ h.valid0
    /\ ~h.lost
    /\ ~h.short
    /\ \/ q.overwrite
       \/ \A i \in 1..Len(q.prepared) :
             <<q.prepared[i].target_folder, q.prepared[i].name>> \notin h.dest0

IsCopiedStep(s) == s.state = "importing" /\ s.status = "success"
CopiedSteps(q) == SelectSeq(q.steps, IsCopiedStep)

\* the request ended in state completed with every upload copied, in upload
\* order, and listed in the response
CompletedInOrder(q, h) ==
    /\ q.response.state = "completed"
    /\ q.steps[Len(q.steps)].state = "completed"
    /\ h.copies = Len(q.files)
    /\ Len(q.response.imported) = Len(q.files)
    /\ Len(CopiedSteps(q)) = Len(q.files)
    /\ \A i \in 1..Len(q.files) :
          /\ q.response.imported[i].source_filename = UploadName(q, i)
          /\ q.response.imported[i].file = q.prepared[i].name
          /\ CopiedSteps(q)[i].file = q.prepared[i].name

\* every upload of the request is a file of the target, with its own content
AllOnTarget(q) ==
    \A i \in 1..Len(q.files) :
        [folder |-> q.prepared[i].target_folder, name |-> q.prepared[i].name,
         content |-> q.files[i]] \in dest

DistinctDestinations(q) ==
    \A i, j \in 1..Len(q.prepared) :
        i # j => <<q.prepared[i].target_folder, q.prepared[i].name>>
                   # <<q.prepared[j].target_folder, q.prepared[j].name>>

StateRank(state) ==
    CASE state = "initializing" -> 1
      [] state = "validating_target" -> 2
      [] state = "ensuring_structure" -> 3
      [] state = "validating_files" -> 4
      [] state = "checking_space" -> 5
      [] state = "importing" -> 6
      [] state = "completed" -> 7
      [] OTHER -> 8

IsErrorStep(s) == s.status = "error"
HasError(q) == \E i \in 1..Len(q.steps) : IsErrorStep(q.steps[i])
HasStep(q, message) == \E i \in 1..Len(q.steps) : q.steps[i].message = message

\* the steps are in the fixed order, work of a state is found only after the
\* success of the states before it, and an error step is the last step
OrderedSteps(q, h) ==
    /\ \A i, j \in 1..Len(q.steps) :
          i < j => StateRank(q.steps[i].state) <= StateRank(q.steps[j].state)
    /\ q.tmp_dir.exists => HasStep(q, "required folders are ready")
    /\ h.copies > 0 => HasStep(q, "disk space is sufficient")
    /\ h.saves <= h.copies
    /\ HasStep(q, "import completed") =>
          /\ Len(q.prepared) = Len(q.files)
          /\ h.copies = Len(q.files) /\ h.saves = Len(q.files)
          /\ Len(CopiedSteps(q)) = Len(q.files)
    /\ HasError(q) =>
          /\ Finished(q)
          /\ IsErrorStep(q.steps[Len(q.steps)])
          /\ \A i \in 1..(Len(q.steps) - 1) : ~IsErrorStep(q.steps[i])

\* after a failure the request only ends: no step is added, and the target, its
\* files, the manifest and the work counters are left alone by it
NoWorkAfterFailure(r) ==
    (HasError(req[r]) /\ req'[r] # req[r] /\ started' = started)
        => /\ req[r].pc = "finally" /\ req'[r].pc = "done"
           /\ req'[r].steps = req[r].steps
           /\ UNCHANGED <<target, folders, dest, manifestFile, free, hist>>

\* C3: the recorded steps follow the fixed order of states, completed is
\* recorded only after every staged file was copied and journaled, and after a
\* failed step no later work is done and nothing is retried.
C3_FixedOrderNoRetry ==
    /\ [](\A r \in Requests : OrderedSteps(req[r], hist[r]))
    /\ [][\A r \in Requests : NoWorkAfterFailure(r)]_vars

\* a request failed in state importing after it had copied and journaled a file
C3_Witness ==
    \E r \in Requests :
        /\ req[r].pc = "done"
        /\ HasError(req[r])
        /\ hist[r].copies >= 1 /\ hist[r].saves >= 1
        /\ req[r].steps[Len(req[r].steps)].state = "importing"

\* C4: when a request has finished, the temporary staging directory it created
\* no longer exists, whatever the exit path.
C4_StagingRemoved ==
    \A r \in Requests : ~Active(r) => ~req[r].tmp_dir.exists

\* a request that had created its staging directory ended on an unexpected error
C4_Witness ==
    \E r \in Requests :
        /\ req[r].pc = "done"
        /\ HasStep(req[r], "validating and staging uploads")
        /\ req[r].response.message = "unexpected error during import"

Quiescent == \A r \in Requests : ~Active(r)

\* C5: after imports run one at a time, every file copied into CD/ or DVD/ has
\* a manifest entry with its target_folder and destination_filename.
C5_CopiedFilesAreJournaled ==
    Quiescent =>
        \A d \in dest :
            \E i \in 1..Len(load_manifest(manifestFile)) :
                /\ load_manifest(manifestFile)[i].target_folder = d.folder
                /\ load_manifest(manifestFile)[i].destination_filename = d.name

\* an upsert of request r is written: its save step changes the manifest file
UpsertWritten(r) ==
    req[r].pc = "save" /\ req'[r] # req[r] /\ manifestFile' # manifestFile

\* every entry of old is still at its place in new, at most one of them updated
KeepsEntries(old, new) ==
    /\ Len(new) >= Len(old)
    /\ \E m \in 0..Len(old) :
          \A i \in 1..Len(old) :
              IF i = m
              THEN /\ new[i].source_key = old[i].source_key
                      \/ new[i].source_filename = old[i].source_filename
                      \/ new[i].destination_key = old[i].destination_key
                      \/ new[i].destination_filename = old[i].destination_filename
              ELSE new[i] = old[i]

\* C6: every upsert of the import path keeps each entry that was in the
\* manifest file before it (unchanged, or updated in place if matched), and the
\* number of entries never decreases, also when the read inside upsert fails.
C6_UpsertKeepsEntries ==
    [][\A r \in Requests :
          UpsertWritten(r) => KeepsEntries(manifestFile.entries, manifestFile'.entries)]_vars

\* C7: concurrent imports are not serialized. While one request is between its
\* manifest load and its save, the load of another request is not held back,
\* and a save writes what its own request loaded and upserted, whatever the
\* manifest file holds by then.
C7_NoSerialization ==
    \A r, o \in Requests :
        (r # o /\ req[r].pc = "save" /\ req[o].pc = "load") => ENABLED Load(o)

\* both requests completed, their files are not the same game, and the manifest
\* holds a single entry: the update of one of them is lost
C7_Witness ==
    /\ \A r \in Requests : req[r].pc = "done" /\ req[r].response.state = "completed"
    /\ \E r, o \in Requests :
          /\ r # o
          /\ ~EntryMatches(Upserted([req[r] EXCEPT !.idx = 1, !.loaded = <<>>], 0)[1],
                           req[o].prepared[1].source_filename, req[o].prepared[1].name)
          /\ Len(manifestFile.entries) = 1
          /\ manifestFile.entries[1].destination_filename = req[o].prepared[1].name
          /\ manifestFile.entries[1].target_folder = req[o].prepared[1].target_folder
          /\ \E d \in dest : /\ d.name = req[r].prepared[1].name
                             /\ d.folder = req[r].prepared[1].target_folder

\* C8: after sequential upserts from an empty manifest no two entries have the
\* same source_key and no two entries have the same destination_filename.
C8_OneEntryPerIdentity ==
    \A i, j \in 1..Len(manifestFile.entries) :
        i # j => /\ manifestFile.entries[i].source_key # manifestFile.entries[j].source_key
                 /\ manifestFile.entries[i].destination_filename
                      # manifestFile.entries[j].destination_filename

\* the place of the first entry of entries that the upsert of item matches, or 0
MatchedAt(entries, item) ==
    IF \E i \in 1..Len(entries) : EntryMatches(entries[i], item.source_filename, item.name)
    THEN CHOOSE i \in 1..Len(entries) :
            /\ EntryMatches(entries[i], item.source_filename, item.name)
            /\ \A k \in 1..(i - 1) :
                  ~EntryMatches(entries[k], item.source_filename, item.name)
    ELSE 0

\* new is old with one entry for item appended when none matched, and else with
\* the first matching entry alone updated
AppendsOrUpdatesFirst(old, new, item, now) ==
    IF MatchedAt(old, item) = 0
    THEN /\ Len(new) = Len(old) + 1
         /\ SubSeq(new, 1, Len(old)) = old
         /\ new[Len(new)].source_filename = item.source_filename
         /\ new[Len(new)].destination_filename = item.name
    ELSE /\ Len(new) = Len(old)
         /\ \A i \in 1..Len(old) : i # MatchedAt(old, item) => new[i] = old[i]
         /\ new[MatchedAt(old, item)].source_filename = item.source_filename
         /\ new[MatchedAt(old, item)].destination_filename = item.name
         /\ new[MatchedAt(old, item)].updated_at = now

\* C9: an upsert that matches no entry of the manifest appends exactly one
\* entry at the end and leaves the others unchanged; an upsert that matches
\* updates only the first matching entry, updated_at included, and leaves the
\* count, the order and every other entry unchanged.
C9_UpsertFrame ==
    [][\A r \in Requests :
          UpsertWritten(r) =>
              AppendsOrUpdatesFirst(manifestFile.entries, manifestFile'.entries,
                                    req[r].prepared[req[r].idx], Now)]_vars

\* C10: every game_id the import pipeline puts in a destination filename or a
\* manifest entry has the canonical form of 4 letters, underscore, 3 digits,
\* dot, 2 digits.
C10_CanonicalGameIds ==
    /\ \A r \in Requests : \A i \in 1..Len(req[r].prepared) :
          IsCanonicalId(req[r].prepared[i].game_id)
    /\ \A i \in 1..Len(manifestFile.entries) :
          IsCanonicalId(manifestFile.entries[i].game_id)

\* the base name of source_filename begins with a canonical id and a separator
BeginsWithId(source_filename) ==
    /\ source_filename # None
    /\ Len(PathName(source_filename)) >= 12
    /\ IsCanonicalId(StrUpper(SubSeq(PathName(source_filename), 1, 11)))
    /\ PathName(source_filename)[12] \in {".", "_", "-", " "}

\* the priority chain applied to the arguments of a call
ByPriority(c) ==
    IF BeginsWithId(c.source_filename)
    THEN /\ c.result.id_source = "filename"
         /\ c.result.game_id = StrUpper(SubSeq(PathName(c.source_filename), 1, 11))
    ELSE IF /\ c.target # NoTarget
            /\ lookup_game_id_from_manifest(c.target, c.source_filename, c.game_name) # None
    THEN /\ c.result.id_source = "manifest"
         /\ c.result.game_id
              = lookup_game_id_from_manifest(c.target, c.source_filename, c.game_name)
    ELSE /\ c.result.id_source = "generated"
         /\ c.result.game_id
              = resolve_game_id(GenerationSeed(c.game_name, c.source_filename))

\* C11: resolve_game_id_for_target takes the id of the filename first, whatever
\* the manifest holds, then the id of the manifest lookup when a target is given,
\* then a generated id; was_generated is true exactly for the tag generated, and
\* without a target the result never comes from the manifest.
C11_FixedPriority ==
    call.op = "resolve_game_id_for_target" =>
        /\ ByPriority(call)
        /\ call.result.generated <=> call.result.id_source = "generated"
        /\ call.target = NoTarget => call.result.id_source # "manifest"

\* a call whose filename carries an id while the manifest of the target holds
\* another id for the same file
C11_Witness ==
    /\ call.op = "resolve_game_id_for_target"
    /\ call.target # NoTarget
    /\ BeginsWithId(call.source_filename)
    /\ lookup_game_id_from_manifest(call.target, call.source_filename, call.game_name) # None
    /\ lookup_game_id_from_manifest(call.target, call.source_filename, call.game_name)
         # call.result.game_id
    /\ call.result.id_source = "filename"

\* the id the name SLUS_209.46_Game.iso begins with
IdSlusGame == <<"S", "L", "U", "S", "_", "2", "0", "9", ".", "4", "6">>

\* request r is the first import into an empty valid target: it is about to
\* return, the target stayed in place and free space never fell below what the
\* payload needed
FirstImportUndisturbed(r) ==
    /\ req[r].pc = "finally"
    /\ started = 1
    /\ hist[r].valid0 /\ ~hist[r].lost /\ ~hist[r].short
    /\ hist[r].dest0 = {}

\* C12: importing the single file SLUS_209.46_Game.iso (600 MiB, no readable
\* disc metadata) into an empty valid target with 2 GiB free succeeds, the file
\* lands in CD/, and the manifest gains exactly one entry with id_source
\* "filename" and game_id SLUS_209.46.
C12_FilenameIdScenario ==
    \A r \in Requests :
        (FirstImportUndisturbed(r) /\ req[r].files = <<Upload(NameSlusGame, 600, None)>>)
            => /\ req[r].response.state = "completed"
               /\ \E d \in dest : d.folder = "CD" /\ d.content = req[r].files[1]
               /\ Len(load_manifest(manifestFile)) = 1
               /\ load_manifest(manifestFile)[1].id_source = "filename"
               /\ load_manifest(manifestFile)[1].game_id = IdSlusGame

\* request r is about to test a destination that exists, overwrite not requested
CollisionAt(r) ==
    /\ req[r].pc = "check"
    /\ target = "ok"
    /\ ~req[r].overwrite
    /\ DestExists(req[r].prepared[req[r].idx].target_folder, req[r].prepared[req[r].idx].name)

CollisionFailed(q) ==
    Finished(q) /\ q.response.message = "destination file already exists"

ReimportAt(r, i) ==
    LET item == req[r].prepared[req[r].idx]
    IN /\ req[r].overwrite
       /\ <<item.target_folder, item.name>> \in hist[r].dest0
       /\ i \in 1..Len(manifestFile.entries)
       /\ manifestFile.entries[i].source_filename = item.source_filename
       /\ manifestFile.entries[i].destination_filename = item.name
       /\ manifestFile.entries[i].target_folder = item.target_folder

\* C14: re-importing the same file with overwrite=true leaves the manifest with
\* the number of entries it had after the first import: the entry of the file is
\* updated in place, not duplicated.
C14_ReimportUpdatesInPlace ==
    [][\A r \in Requests : \A i \in 1..Len(manifestFile.entries) :
          (UpsertWritten(r) /\ ReimportAt(r, i))
              => /\ Len(manifestFile'.entries) = Len(manifestFile.entries)
                 /\ manifestFile'.entries[i].source_filename
                      = manifestFile.entries[i].source_filename
                 /\ manifestFile'.entries[i].destination_filename
                      = manifestFile.entries[i].destination_filename]_vars

SpaceFailed(q) == Finished(q) /\ q.response.message = "insufficient disk space"

\* the capacity failure of checking_space comes before any copy and any manifest
\* write, changes nothing on the target and reports required, free and
\* deficit = required - free
FailsBeforeAnyCopy ==
    /\ [](\A r \in Requests :
            SpaceFailed(req[r])
                => /\ hist[r].copies = 0 /\ hist[r].saves = 0
                   /\ req[r].imported = <<>>
                   /\ req[r].response.state = "failed"
                   /\ req[r].response.details.required
                        = SumSizes(req[r].prepared)
                          + Max((SumSizes(req[r].prepared) * 5) \div 100, 500)
                   /\ req[r].response.details.free < req[r].response.details.required
                   /\ req[r].response.details.deficit
                        = req[r].response.details.required - req[r].response.details.free)
    /\ [][\A r \in Requests :
            (/\ req[r].pc = "space" /\ req'[r] # req[r] /\ target = "ok"
             /\ free < SumSizes(req[r].prepared)
                         + Max((SumSizes(req[r].prepared) * 5) \div 100, 500))
                => /\ SpaceFailed(req'[r])
                   /\ req'[r].response.details.free = free
                   /\ UNCHANGED <<dest, manifestFile, folders, free>>]_vars

\* the scenario: one file of 900 MiB, 1 GiB free when the space is checked
BigFileShort(q) ==
    /\ SpaceFailed(q)
    /\ q.files = <<Upload(NameA, 900, None)>>
    /\ q.response.details.free = 1024

\* C15 as stated: the capacity failure of checking_space comes before any copy
\* and manifest write and reports required, free and deficit; for a single
\* 900 MiB file with 1 GiB free the deficit is the 400 MiB the spec states.
C15_DeficitAsStated ==
    /\ FailsBeforeAnyCopy
    /\ [](\A r \in Requests :
            BigFileShort(req[r]) => req[r].response.details.deficit = 400)

\* C15 amended: the same, with the deficit of the scenario being
\* (900 + 500) - 1024 = 376 MiB.
C15_DeficitIsRequiredMinusFree ==
    /\ FailsBeforeAnyCopy
    /\ [](\A r \in Requests :
            BigFileShort(req[r]) => req[r].response.details.deficit = 376)

\* the import of a single 900 MiB file has failed on a target with 1 GiB free
C15_Witness ==
    \E r \in Requests : BigFileShort(req[r]) /\ req[r].pc = "finally"

\* required_bytes is the payload plus the larger of 5% of it, rounded down, and
\* 500 MiB; for an empty payload it is 500 MiB
RequiredIsPayloadPlusBuffer ==
    call.op = "required_bytes" =>
        /\ call.result >= call.total + 500
        /\ 100 * (call.result - call.total) >= 5 * call.total - 99
        /\ \/ call.result = call.total + 500
           \/ /\ 100 * (call.result - call.total) <= 5 * call.total
              /\ 100 * (call.result - call.total) > 5 * call.total - 100
        /\ call.total = 0 => call.result = 500

\* C16 as stated: required_bytes(total) = total + max(5% of total rounded down,
\* 500 MiB), required_bytes(0) = 500 MiB and required_bytes(20 GiB) = 1 GiB.
C16_RequiredAsStated ==
    /\ RequiredIsPayloadPlusBuffer
    /\ (call.op = "required_bytes" /\ call.total = 20 * 1024) => call.result = 1024

\* C16 amended: the same, with required_bytes(20 GiB) = 21 GiB, of which 1 GiB
\* is the buffer.
C16_RequiredBytes ==
    /\ RequiredIsPayloadPlusBuffer
    /\ (call.op = "required_bytes" /\ call.total = 20 * 1024)
          => call.result = 21 * 1024 /\ call.buffer = 1024

\* required_bytes was computed for a payload of 20 GiB
C16_Witness == call.op = "required_bytes" /\ call.total = 20 * 1024

\* the batch of q was refused for an empty base filename or a non-.iso extension
BadUploadRefused(q) ==
    /\ Finished(q)
    /\ q.response.message \in {"invalid file name", "only .iso files are allowed"}

\* C17: when an item of a batch has an empty base filename or an extension other
\* than .iso, the batch fails at once and none of its items is staged: no item,
\* the valid ones before the offending one included, is written to the staging
\* area, copied to the target or journaled.
C17_NoneStagedOnInvalidUpload ==
    \A r \in Requests :
        BadUploadRefused(req[r])
            => /\ req[r].tmp_dir.files = {}
               /\ hist[r].copies = 0 /\ hist[r].saves = 0

TargetRefusal == "target validation failed"

\* a step that calls validate_target
IsValidateCall == call' # call /\ call'.op = "validate_target"

\* a step in which request r enters import_iso
BeginsImport(r) == ~Active(r) /\ req'[r] # req[r]

\* C18: when the target path does not exist, is not a directory or is not
\* readable, writable and traversable, validate_target and import_iso both fail
\* with the target-validation error and leave everything as it was: no required
\* folder is created, no staging directory is made, no file is copied and the
\* manifest is not written.
C18_RefusedTargetUnchanged ==
    [][/\ target # "ok"
          => /\ IsValidateCall
                  => /\ call'.response.status = "error"
                     /\ call'.response.message = TargetRefusal
                     /\ UNCHANGED <<folders, dest, manifestFile>>
             /\ \A r \in Requests :
                  BeginsImport(r)
                      => /\ req'[r].response.status = "error"
                         /\ req'[r].response.message = TargetRefusal
                         /\ req'[r].pc = "finally"
                         /\ UNCHANGED <<folders, dest, manifestFile>>
       /\ \A r \in Requests :
            req'[r].response.message = TargetRefusal
                => /\ req'[r].tmp_dir = NoTmp
                   /\ ~HasStep(req'[r], "validating and staging uploads")
                   /\ hist'[r].copies = 0 /\ hist'[r].saves = 0
                   /\ (Active(r) => UNCHANGED <<folders, dest, manifestFile>>)]_vars

C18_Witness ==
    /\ target = "noaccess"
    /\ call.op = "validate_target" /\ call.response.message = TargetRefusal
    /\ \E r \in Requests :
          /\ req[r].pc = "done"
          /\ req[r].response.message = TargetRefusal
          /\ req[r].files # <<>>
    /\ folders = AllMissing /\ dest = {} /\ manifestFile = AbsentFile

StructureRefusal == "invalid target structure"

MissingFolders == {f \in FolderNames : folders[f] = "missing"}

HasNonDirectory == \E f \in FolderNames : folders[f] = "file"

NonDirectoriesKept == \A f \in FolderNames : folders[f] = "file" => folders'[f] = "file"

SeqRange(seq) == {seq[i] : i \in DOMAIN seq}

\* a step in which ensure_required_folders is called: by validate_target with
\* folder creation enabled, or by a beginning import, on an accepted target
EnsuresByValidate == target = "ok" /\ IsValidateCall /\ call'.ensure_folders

EnsuresByImport(r) == target = "ok" /\ BeginsImport(r)

\* C19: when ensure_required_folders succeeds, all ten required names are
\* directories and the created list is exactly the names that were missing
\* before the call; when a required name exists but is not a directory, the
\* call fails, the non-directory stays as it was, and the import does no
\* staging and no copying.
C19_EnsureRequiredFolders ==
    [][/\ EnsuresByValidate
          => IF HasNonDirectory
             THEN /\ call'.response.message = StructureRefusal
                  /\ NonDirectoriesKept
             ELSE /\ call'.response.status = "success"
                  /\ folders' = AllDirs
                  /\ SeqRange(call'.response.created) = MissingFolders
                  /\ Len(call'.response.created) = Cardinality(MissingFolders)
       /\ \A r \in Requests :
            /\ EnsuresByImport(r)
                 => IF HasNonDirectory
                    THEN /\ req'[r].response.message = StructureRefusal
                         /\ req'[r].pc = "finally"
                         /\ NonDirectoriesKept
                    ELSE /\ req'[r].response = NoResponse
                         /\ folders' = AllDirs
            /\ req'[r].response.message = StructureRefusal
                 => /\ req'[r].tmp_dir = NoTmp
                    /\ ~HasStep(req'[r], "validating and staging uploads")
                    /\ hist'[r].copies = 0]_vars

C19_Witness ==
    /\ call.op = "validate_target"
    /\ call.response.created = <<"APPS">>
    /\ folders["VMC"] = "file"
    /\ \E r \in Requests :
          /\ req[r].pc = "done"
          /\ req[r].response.message = StructureRefusal
          /\ req[r].files # <<>>

\* a step that validates the target with folder creation enabled
ValidatesWithCreation == IsValidateCall /\ call'.ensure_folders

\* C20: validating a target with folder creation enabled is idempotent: the
\* first validation of a target that misses required folders creates them and
\* reports them as created; a second validation with nothing changed in between
\* creates nothing, reports an empty created list and all ten required folders
\* as existing.
C20_ValidateTwice ==
    [][ValidatesWithCreation /\ target = "ok"
          => /\ call'.response.status = "success" /\ ~ValidatedJustBefore
                  => /\ SeqRange(call'.response.created) = MissingFolders
                     /\ \A f \in MissingFolders : folders'[f] = "dir"
             /\ ValidatedJustBefore
                  => /\ folders' = folders
                     /\ call'.response.status = "success"
                     /\ call'.response.created = <<>>
                     /\ call'.response.existing = REQUIRED_FOLDERS]_vars

\* a second validation has answered after a first one that created folders
C20_Witness ==
    /\ call.op = "validate_target" /\ call.ensure_folders
    /\ call.repeats /\ call.previously_created = <<"APPS", "VMC">>
    /\ call.response.status = "success"
    /\ call.response.created = <<>>
    /\ call.response.existing = REQUIRED_FOLDERS
    /\ \E r \in Requests : req[r].pc = "done" /\ req[r].response.message = StructureRefusal

\* the folder the claim assigns to a file of the given size, in MiB
FolderBySize(size) == IF size < 700 THEN "CD" ELSE "DVD"

\* the step in which request r copies the file whose turn it is
CopiesNow(r) == hist'[r].copies = hist[r].copies + 1

\* C21: every staged file is assigned the target folder CD exactly when its size
\* is strictly less than 700 MiB and DVD otherwise (a file of exactly 700 MiB
\* goes to DVD), and the copy destination is always inside that assigned folder.
C21_FolderBySize ==
    /\ [](\A r \in Requests : \A i \in 1..Len(req[r].prepared) :
            /\ req[r].prepared[i].size = req[r].files[i].size
            /\ req[r].prepared[i].target_folder = FolderBySize(req[r].prepared[i].size))
    /\ [][\A r \in Requests :
            CopiesNow(r)
                => LET item == req[r].prepared[req[r].idx]
                       copied == [folder |-> FolderBySize(item.size), name |-> item.name,
                                  content |-> req[r].files[req[r].idx]]
                   IN /\ copied \in dest'
                      /\ dest' \ dest \subseteq {copied}]_vars

\* a file of exactly 700 MiB is on the target in DVD/ and a smaller one in CD/
C21_Witness ==
    /\ \E d \in dest : d.content.size = 700 /\ d.folder = "DVD"
    /\ \E d \in dest : d.content.size = 100 /\ d.folder = "CD"
    /\ \E r \in Requests : hist[r].copies = 2

\* the name begins with the id and an underscore, letter case aside
BeginsWithPrefix(name, game_id) == StartsWith(StrUpper(name), StrUpper(game_id \o <<"_">>))

\* C22: the destination filename of every staged file begins, compared
\* case-insensitively, with the resolved game_id and '_'; the prefix is added only
\* when the original name does not begin with it already, so a name that carries
\* the prefix is kept unchanged and gets no second prefix.
C22_PrefixedOnce ==
    \A r \in Requests : \A i \in 1..Len(req[r].prepared) :
        LET item == req[r].prepared[i]
        IN /\ BeginsWithPrefix(item.name, item.game_id)
           /\ item.name = IF BeginsWithPrefix(item.source_filename, item.game_id)
                          THEN item.source_filename
                          ELSE item.game_id \o <<"_">> \o item.source_filename

\* a file named with its disc id in lower case is on the target under its own
\* name, and a file without the prefix has been given one
C22_Witness ==
    /\ \E d \in dest : d.name = NameLowerSlusA
    /\ \E r \in Requests : \E i \in 1..Len(req[r].prepared) :
          /\ req[r].prepared[i].source_filename = NameA
          /\ req[r].prepared[i].name = IdTwo \o <<"_">> \o NameA

\* the places of the entries with a game_id that match the call on one tier;
\* tier 1 is the key of the filename's stem, tier 2 the filename source_name,
\* tier 3 the key of the game name; a tier whose search value is empty has none
TierHits(c, tier, source_name) ==
    LET entries == load_manifest(manifestFile)
        source_key == normalize_lookup_key(PathStem(OrEmpty(c.source_filename)))
        game_key == normalize_lookup_key(OrEmpty(c.game_name))
    IN {i \in 1..Len(entries) :
           /\ entries[i].game_id # <<>>
           /\ CASE tier = 1 -> /\ source_key # <<>>
                               /\ source_key \in {entries[i].source_key,
                                                  entries[i].destination_key}
                [] tier = 2 -> /\ source_name # <<>>
                               /\ source_name \in {entries[i].source_filename,
                                                   entries[i].destination_filename}
                [] OTHER -> game_key # <<>> /\ entries[i].game_name_key = game_key}

FirstOf(hits) == CHOOSE i \in hits : \A j \in hits : i <= j

\* the result is the id of the first entry of the highest tier that has a match
ByTiers(c, source_name) ==
    LET entries == load_manifest(manifestFile)
        matched == {t \in 1..3 : TierHits(c, t, source_name) # {}}
    IN IF matched = {} THEN c.result = None
       ELSE c.result = entries[FirstOf(TierHits(c, FirstOf(matched), source_name))].game_id

\* C23 as stated: the second tier compares the raw source filename.
C23_TiersOnRawName ==
    call.op = "lookup_game_id_from_manifest" => ByTiers(call, OrEmpty(call.source_filename))

\* C23: the lookup searches the whole entry list in three tiers (key of the
\* filename's stem, the source filename with surrounding whitespace stripped,
\* key of the game name) and returns the game_id of the first entry, in list
\* order, of the first tier that has a match, else none; a match of a higher tier
\* on a later entry wins over a match of a lower tier on an earlier entry, and
\* entries without a game_id are skipped.
C23_TiersOnStrippedName ==
    call.op = "lookup_game_id_from_manifest"
        => ByTiers(call, StrStrip(OrEmpty(call.source_filename)))

\* the key tier matched on the last entry while the game-name tier matched on
\* the first, behind an entry without a game_id, and the key tier won
C23_Witness ==
    /\ call.op = "lookup_game_id_from_manifest"
    /\ manifestFile = ValidFile(<<EntryWithoutId, EntryByGame, EntryByKey>>)
    /\ call.source_filename = NameA /\ call.game_name = GameA
    /\ call.result = IdTwo

Accepted(c) == c.result # None

\* what holds of every accepted call: normalizing again changes nothing and the
\* result matches the canonical pattern exactly
AcceptedIsCanonical(c) ==
    Accepted(c) => /\ c.again = c.result
                   /\ Len(c.result) = 11
                   /\ \A k \in 1..4 : c.result[k] \in {UpperChars[i] : i \in DOMAIN UpperChars}
                   /\ c.result[5] = "_" /\ c.result[9] = "."
                   /\ \A k \in {6, 7, 8, 10, 11} :
                         c.result[k] \in {DigitChars[i] : i \in DOMAIN DigitChars}

\* C25 as stated: every input whose upper-cased form does not match the pattern
\* is rejected.
C25_RejectsByUppercasedForm ==
    call.op = "normalize_game_id"
        => /\ AcceptedIsCanonical(call)
           /\ ~IsCanonicalId(StrUpper(call.game_id)) => ~Accepted(call)

\* C25: normalize_game_id is idempotent on every input it accepts, its result
\* matches the canonical pattern exactly, and every input whose form with the
\* surrounding whitespace stripped and the letters upper-cased does not match
\* the pattern is rejected; every other input is accepted in that form.
C25_NormalizeIdempotent ==
    call.op = "normalize_game_id"
        => /\ AcceptedIsCanonical(call)
           /\ ~IsCanonicalId(StrUpper(StrStrip(call.game_id))) => ~Accepted(call)
           /\ IsCanonicalId(StrUpper(StrStrip(call.game_id)))
                => call.result = StrUpper(StrStrip(call.game_id))

\* an id in mixed case was accepted and upper-cased
C25_Witness ==
    /\ call.op = "normalize_game_id"
    /\ call.game_id = <<"S", "l", "U", "s", "_", "1", "1", "1", ".", "1", "1">>
    /\ call.result = IdSlusOne
    /\ call.again = IdSlusOne

\* the decimal digit of n at the place of 10^k
DigitAt(n, k) == DigitChars[((n \div (10 ^ k)) % 10) + 1]

TargetDisappeared == "target path disappeared during import"

\* the messages and next actions of the capacity and collision errors and of
\* the generic error
OtherFailureMessages ==
    {"insufficient disk space", "disk space dropped during import",
     "destination file already exists", "unexpected error during import"}
OtherNextActions ==
    {"free_up_space_then_retry", "enable_overwrite_or_rename_file", "retry"}

\* the turn of a file of request r has come and the checks before its copy are made
TurnComes(r) == req[r].pc = "check" /\ req'[r] # req[r]

\* C27: when the target root no longer exists as a staged file's turn to be
\* copied comes, the job fails at that file with the target-disappeared error,
\* whose message and next action are those of no capacity or collision error;
\* no copy and no manifest write is made for that file or a later one; and the
\* failure is a classified error, not the generic unexpected error.
C27_TargetDisappeared ==
    [][\A r \in Requests :
          /\ (TurnComes(r) /\ target = "missing")
                => /\ req'[r].pc = "finally"
                   /\ req'[r].response.status = "error"
                   /\ req'[r].response.state = "failed"
                   /\ req'[r].response.message = TargetDisappeared
                   /\ req'[r].response.message \notin OtherFailureMessages
                   /\ req'[r].response.next_action \notin OtherNextActions
                   /\ req'[r].response.status_code # 500
                   /\ ~HasStep(req'[r], "unexpected error")
                   /\ req'[r].idx = req[r].idx
                   /\ Len(req'[r].imported) = req[r].idx - 1
          /\ (req[r].response.message = TargetDisappeared /\ req'[r].pc # "idle"
                /\ req'[r].response = req[r].response)
                => /\ hist'[r].copies = hist[r].copies
                   /\ hist'[r].saves = hist[r].saves
                   /\ req'[r].pc \in {"finally", "done"}]_vars

\* the drive was unplugged after the first of two files was copied, and the
\* request failed at its second file
C27_Witness ==
    \E r \in Requests :
        /\ req[r].pc = "done"
        /\ req[r].response.message = TargetDisappeared
        /\ req[r].idx = 2
        /\ hist[r].copies = 1
        /\ target = "missing"

\* request r has failed in the importing state after copying at least one file,
\* and its response is about to go out
FailedAfterCopies(r) ==
    /\ req[r].pc = "finally"
    /\ req[r].response.status = "error"
    /\ HasStep(req[r], "copying files to target")
    /\ hist[r].copies >= 1

\* C28: whenever an import fails in the importing state after k >= 1 files of
\* the batch were copied (by a collision, a drop of free space, the target
\* disappearing or an unexpected exception), those k files remain on the target
\* and the failure response lists each of them as succeeded before the failure.
C28_PartialSuccessSurfaced ==
    \A r \in Requests :
        FailedAfterCopies(r)
            => /\ ~hist[r].lost
                    => \A i \in 1..hist[r].copies :
                          DestExists(req[r].prepared[i].target_folder, req[r].prepared[i].name)
               /\ Len(CopiedSteps(req[r])) = hist[r].copies
               /\ \A i \in 1..hist[r].copies :
                     CopiedSteps(req[r])[i].file = req[r].prepared[i].name

\* the destination of the file whose turn it is exists and overwrite is off
DestinationTaken(r) ==
    LET item == req[r].prepared[req[r].idx]
    IN DestExists(item.target_folder, item.name) /\ ~req[r].overwrite

\* free space is below what the free-space check of the loop requires
SpaceTooLow(r) == free < dynamic_required(req[r])

\* the step in which request r writes the manifest
SavesNow(r) == hist'[r].saves = hist[r].saves + 1

HasDiscId(upload) ==
    /\ upload.cnf # None
    /\ \E i \in 1..Len(upload.cnf) : CanonicalAt(StrUpper(upload.cnf), i)

\* the tag the claim gives the file
TagOf(upload) == IF HasDiscId(upload) THEN "iso" ELSE "generated"

\* C30: while staging, the id of each file comes from the disc metadata if the
\* extraction yields one and is generated from the inferred game name otherwise:
\* every staged file, and so every manifest entry the import pipeline writes, has
\* id_source 'iso' exactly when the extraction returned an id and 'generated'
\* otherwise; the pipeline never records 'filename' or 'manifest'.
C30_IdSourceOfImports ==
    /\ [](/\ \A r \in Requests : \A i \in 1..Len(req[r].prepared) :
                LET item == req[r].prepared[i]
                IN /\ item.id_source = TagOf(req[r].files[i])
                   /\ item.id_source = "iso"
                        => item.game_id = extract_game_id_from_iso(req[r].files[i].cnf)
                   /\ item.id_source = "generated"
                        => item.game_id = resolve_game_id(item.game_name)
          /\ \A i \in 1..Len(load_manifest(manifestFile)) :
                load_manifest(manifestFile)[i].id_source \in {"iso", "generated"})
    /\ [][\A r \in Requests :
            SavesNow(r)
                => \E i \in 1..Len(load_manifest(manifestFile')) :
                      LET entry == load_manifest(manifestFile')[i]
                      IN /\ entry.destination_filename = req[r].prepared[req[r].idx].name
                         /\ entry.id_source = TagOf(req[r].files[req[r].idx])]_vars

\* the manifest holds an entry tagged iso, and a file whose name begins with an
\* id and whose image has no SYSTEM.CNF was journaled as generated
C30_Witness ==
    /\ \E i \in 1..Len(load_manifest(manifestFile)) :
          load_manifest(manifestFile)[i].id_source = "iso"
    /\ \E i \in 1..Len(load_manifest(manifestFile)) :
          /\ load_manifest(manifestFile)[i].source_filename = NameSlusA
          /\ load_manifest(manifestFile)[i].id_source = "generated"

\* ------------------------------------------------------------------------
\* C31: within one batch every accepted upload is staged under a name of its
\* own: its own name when no earlier upload of the batch was staged under it,
\* else the first free name made of the stem, _1, _2, ... and the extension;
\* every staged file still holds the upload it was written for, and there are
\* as many staged files as accepted uploads
\* ------------------------------------------------------------------------

\* the names the uploads before the i-th were staged under
StagedBefore(c, i) == {c.prepared[j].staged_path : j \in 1..(i - 1)}

Suffixed(name, k) == PathStem(name) \o <<"_">> \o IntToStr(k) \o PathSuffix(name)

FirstFreeName(c, i) ==
    LET name == PathName(c.files[i].filename)
        path == c.prepared[i].staged_path
    IN IF name \notin StagedBefore(c, i) THEN path = name
       ELSE \E k \in 1..MaxBatch :
               /\ path = Suffixed(name, k)
               /\ path \notin StagedBefore(c, i)
               /\ \A d \in 1..(k - 1) : Suffixed(name, d) \in StagedBefore(c, i)

C31_OwnStagingLocation ==
    call.op = "stage" =>
        /\ Cardinality(call.tmp) = Len(call.prepared)
        /\ \A i \in 1..Len(call.prepared) :
              /\ FirstFreeName(call, i)
              /\ [name |-> call.prepared[i].staged_path, content |-> call.files[i]] \in call.tmp
              /\ \A j \in 1..(i - 1) :
                    call.prepared[j].staged_path # call.prepared[i].staged_path

\* three uploads: two of one name, and one whose name is the suffixed name the
\* second was given
C31_Witness ==
    /\ call.op = "stage"
    /\ Len(call.prepared) = 3
    /\ PathName(call.files[1].filename) = PathName(call.files[2].filename)
    /\ PathName(call.files[3].filename) = call.prepared[2].staged_path
    /\ call.prepared[2].staged_path # PathName(call.files[2].filename)
    /\ call.prepared[3].staged_path # PathName(call.files[3].filename)

\* ------------------------------------------------------------------------
\* C32: when overwrite is not requested, no copy of an import lands on a
\* destination file that exists at the moment of the copy, whatever the steps of
\* two imports to the same destination path interleave like
\* ------------------------------------------------------------------------

\* request r copies the file at its turn in this step
CopyLands(r) == req[r].pc = "copy" /\ req'[r].pc = "load"

C32_NoOverwriteUnlessRequested ==
    [][\A r \in Requests :
          (CopyLands(r) /\ ~req[r].overwrite) =>
              ~DestExists(req[r].prepared[req[r].idx].target_folder,
                          req[r].prepared[req[r].idx].name)]_vars

\* ------------------------------------------------------------------------
\* C33: right after upsert(source_filename = f, game_id = g) on a manifest
\* that sequential upserts have built, the lookup by f, and by every filename
\* whose stem has the normalized key of f's stem, returns g
\* ------------------------------------------------------------------------

SameKey(a, b) == normalize_lookup_key(PathStem(a)) = normalize_lookup_key(PathStem(b))

C33_UpsertLookupRoundTrip ==
    call.op = "upsert_manifest_entry" =>
        \A n \in RoundTripSources :
            SameKey(n, call.source_filename) => call.found[n] = call.game_id

\* ------------------------------------------------------------------------
\* C34: on a target no other process writes to, an import that overwrites no
\* existing destination leaves, after each of its copies, free space of at least
\* max(5% of the bytes that were still to copy before that copy, 500 MiB), and
\* so at least 500 MiB when it ends
\* ------------------------------------------------------------------------

\* the request writes to no destination that existed when it began, and to no
\* destination twice
OverwritesNothing(q, h) ==
    /\ DistinctDestinations(q)
    /\ \A i \in 1..Len(q.prepared) :
          <<q.prepared[i].target_folder, q.prepared[i].name>> \notin h.dest0

\* the sizes of the staged files from the one at its turn on
BytesToCopy(q) == SumSizes(SubSeq(q.prepared, q.idx, Len(q.prepared)))

BufferOf(bytes) ==
    Max((bytes * SPACE_BUFFER_RATIO_NUM) \div SPACE_BUFFER_RATIO_DEN, SPACE_BUFFER_MIN_BYTES)

C35_CopiesAgree ==
    call.op = "resolve_both" =>
        /\ call.from_main = call.from_service
        /\ call.main = call.service

\* ------------------------------------------------------------------------
\* C36: format_target runs the erase command only in a request in which the
\* platform is macOS, the confirm phrase is FORMAT up to case and surrounding
\* blanks, the target path exists, the whole disk is reported as not internal
\* (no Internal field counts as internal) and the whole disk or the volume is
\* reported as removable media
\* ------------------------------------------------------------------------

ErasesDisk(c) == \E i \in 1..Len(c.result.commands) : c.result.commands[i] = "eraseDisk"

C36_EraseOnlyWhenSafe ==
    (call.op = "format_target" /\ ErasesDisk(call)) =>
        /\ call.machine.system = Darwin
        /\ call.confirm_phrase \in {PhraseFormat, PhrasePadded}
        /\ call.machine.exists
        /\ call.machine.whole_info.Internal = "false"
        /\ \/ call.machine.whole_info.RemovableMedia = "true"
           \/ call.machine.info.RemovableMedia = "true"
        /\ SubSeq(call.result.commands, 1, 2) = <<"info target", "info whole disk">>

\* a disk erased on the word of the volume's report alone, with a phrase in
\* lower case and padded
C36_Witness ==
    /\ call.op = "format_target"
    /\ ErasesDisk(call)
    /\ call.confirm_phrase = PhrasePadded
    /\ call.machine.whole_info.RemovableMedia = "missing"
    /\ call.result.status_code = 200

\* ------------------------------------------------------------------------
\* C37: for every client, calls of the rate limiter in the order of their
\* timestamps: two allowed calls are at least ART_SEARCH_MIN_INTERVAL_SEC
\* apart, no 60 seconds hold more than ART_SEARCH_RATE_LIMIT_PER_MIN allowed
\* calls, and a refused call neither raises the client's count nor changes the
\* time of its last allowed call
\* ------------------------------------------------------------------------

AllowedApart ==
    \A c \in Clients : \A t, u \in granted[c] :
        t < u => u - t >= ART_SEARCH_MIN_INTERVAL_SEC

\* the allowed calls of client c from t to less than 60 seconds later
AllowedWithinWindow(c, t) == {u \in granted[c] : t <= u /\ u < t + RateWindow}

AllowedPerMinute ==
    \A c \in Clients : \A t \in granted[c] :
        Cardinality(AllowedWithinWindow(c, t)) <= ART_SEARCH_RATE_LIMIT_PER_MIN

RefusalLeavesCounters ==
    (call.op = "enforce_art_search_rate_limit" /\ ~call.allowed /\ call.before.present) =>
        /\ call.after.count <= call.before.count
        /\ call.after.last_ts = call.before.last_ts

C37_RateLimit == AllowedApart /\ AllowedPerMinute /\ RefusalLeavesCounters

\* ------------------------------------------------------------------------
\* C38: store_cached_art_search never evicts the entry it has just stored:
\* right after a request's store(key, candidates, t) a get(key, t) returns
\* those candidates, whatever the requests on other threads have stored in the
\* meantime
\* ------------------------------------------------------------------------

\* request r stores in this step
StoresNow(r) == searches[r].pc = "store" /\ searches'[r].pc = "done"

C38_StoredEntryIsKept ==
    [][\A r \in Requests :
          StoresNow(r) =>
              get_cached_art_search(_ART_SEARCH_CACHE', searches[r].cache_key,
                                    searches[r].now_ts).result = searches[r].candidates]_vars

\* ------------------------------------------------------------------------
\* C39: the cache never holds more than ART_SEARCH_CACHE_MAX_SIZE entries, and
\* a read returns the candidates of an entry only if the entry is no older than
\* ART_SEARCH_CACHE_TTL_SEC at the read's timestamp
\* ------------------------------------------------------------------------

\* request r gets its answer from the cache in this step
HitsNow(r) == searches[r].pc = "get" /\ searches'[r].pc = "done"

C39_CacheBounded ==
    /\ [](Len(_ART_SEARCH_CACHE) <= ART_SEARCH_CACHE_MAX_SIZE)
    /\ [][\A r \in Requests :
             HitsNow(r) =>
                 \E i \in 1..Len(_ART_SEARCH_CACHE) :
                    /\ _ART_SEARCH_CACHE[i].key = searches[r].cache_key
                    /\ _ART_SEARCH_CACHE[i].candidates = searches'[r].candidates
                    /\ searches[r].now_ts - _ART_SEARCH_CACHE[i].ts <= ART_SEARCH_CACHE_TTL_SEC]_vars

\* a full cache with an entry exactly as old as the time to live allows, and a
\* request that has been answered from the cache
C39_Witness ==
    /\ Len(_ART_SEARCH_CACHE) = ART_SEARCH_CACHE_MAX_SIZE
    /\ \E i \in 1..Len(_ART_SEARCH_CACHE) :
          clock - _ART_SEARCH_CACHE[i].ts = ART_SEARCH_CACHE_TTL_SEC
    /\ \E r \in Requests :
          /\ searches[r].pc = "done"
          /\ searches[r].cache_hit
          /\ searches[r].candidates # None

====
